---- MODULE Spec2Model ----
(***************************************************************************)
(* The TAXII 1.x response parsers of src/taxii: four event-driven,         *)
(* stack-based parsers that consume the XmlEvent stream of an EventReader  *)
(* and build a result value, or return an error.                           *)
(*                                                                         *)
(* One call of one parser is modelled.  The events the reader yields are   *)
(* the input: each step consumes one event, chosen from a small pool.      *)
(* Of the reader (crate xml) only the iteration protocol is kept: it       *)
(* counts the elements it has open, it yields EndDocument only when a root *)
(* element was opened and none is open any more, and the iteration ends    *)
(* after EndDocument or after an Err item.  Which names it pairs is left   *)
(* open, the parsers check that themselves.                                *)
(*                                                                         *)
(* A second specification, SpecCompose, is one call of a request composer, *)
(* create_subscribe_request_body or create_poll_request_body: the          *)
(* arguments are the input, each step is one block of the function, and    *)
(* the EventWriter keeps the events it was given next to the text it       *)
(* wrote.                                                                  *)
(*                                                                         *)
(* A third specification, SpecTwo, is two calls side by side, two parse    *)
(* calls on two documents or two composer calls, their steps interleaved   *)
(* in any order.                                                           *)
(*                                                                         *)
(* A fourth specification, SpecServer, is the TAXII 2.1 server of          *)
(* src/taxii21: the AppState behind its Mutex, the operations that change  *)
(* it, and GET requests through the Accept-header middleware.  A handler   *)
(* holds the lock from its first to its last statement, so a request is    *)
(* one step.                                                               *)
(***************************************************************************)
EXTENDS Naturals, Sequences, FiniteSets, TLC

VARIABLES
    parser,                 \* which parse function this call runs
    tag_stack,              \* `tag_stack` of the running parser
    last_value,             \* `last_value`, the single text buffer
    collection_set,         \* collections.rs: collection_set.collections
    cur_collection,         \* collections.rs: cur_collection
    cur_service,            \* collections.rs: cur_service (an Option)
    services,               \* services.rs: services.services
    cur_instance,           \* services.rs: cur_service (a ServiceInstance)
    subscription_response,  \* subscriptions.rs: subscription_response
    cur_poll_instance,      \* subscriptions.rs: cur_poll_instance (an Option)
    status_message,         \* status_message.rs: status_message
    outcome,                \* what the call has returned, if it has
    tok,                    \* the event consumed by the last step
    ntok,                   \* number of events consumed
    pushed,                 \* history: records appended to the result so far
    heard,                  \* history: the last text events since the last
                            \* start-element (at most two)
    reader,                 \* the EventReader behind `for e in xml_parser`
    args,                   \* the arguments of create_subscribe_request_body
    rng,                    \* what the random source yields for message_id
    writer,                 \* the EventWriter and, behind it, buf_writer
    at,                     \* the block of the composer that runs next
    composed,               \* what the composer has returned, if it has
    calls,                  \* two calls under way side by side, each with its
                            \* own arguments and locals
    turn,                   \* history: which of the two calls stepped last,
                            \* and how often the turn has changed (up to 2)
    app_state,              \* taxii21/server.rs: the AppState behind the Mutex
    last,                   \* the last operation on the server and its result
    observed                \* history: the answers to GET /api_root1/ with a
                            \* valid Accept header, as they changed (up to 3)

vars == << parser, tag_stack, last_value, collection_set, cur_collection,
           cur_service, services, cur_instance, subscription_response,
           cur_poll_instance, status_message, outcome, tok, ntok, pushed, heard,
           reader, args, rng, writer, at, composed, calls, turn,
           app_state, last, observed >>

parserVars == << parser, tag_stack, last_value, collection_set, cur_collection,
                 cur_service, services, cur_instance, subscription_response,
                 cur_poll_instance, status_message, outcome, tok, ntok, pushed,
                 heard, reader >>

composerVars == << args, rng, writer, at, composed >>

pairVars == << calls, turn >>

serverVars == << app_state, last, observed >>

\* Longest event stream explored.
MaxTokens == 7

----------------------------------------------------------------------------
(* Option and Result values.                                               *)

None == [some |-> FALSE]

Some(v) == [some |-> TRUE, val |-> v]

Ok(v) == [ok |-> TRUE, val |-> v]

Err(msg) == [ok |-> FALSE, panic |-> FALSE, err |-> msg]

\* panic!: the call unwinds, the caller gets no Result at all.
Panic(msg) == [ok |-> FALSE, panic |-> TRUE, err |-> msg]

\* `?` and `Err(err) => return Err(err)`: hand a failed Result on.
Propagate(r) == [ok |-> FALSE, panic |-> r.panic, err |-> r.err]

\* str::to_lowercase on the attribute values of the pools below.
\* A to_lowercase that leaves the string as it is.
ToLowercase_asIs(s) == s

ToLowercase(s) ==
    CASE s = "TRUE" -> "true"
      [] s = "True" -> "true"
      [] s = "DATA_FEED" -> "data_feed"
      [] s = "POLL" -> "poll"
      [] s = "INBOX" -> "inbox"
      [] s = "ACTIVE" -> "active"
      [] s = "PAUSED" -> "paused"
      [] s = "FULL" -> "full"
      [] OTHER -> s

----------------------------------------------------------------------------
(* XmlEvent values.                                                        *)

StartElement(name, attributes) ==
    [kind |-> "StartElement", name |-> name, attributes |-> attributes, data |-> ""]

EndElement(name) ==
    [kind |-> "EndElement", name |-> name, attributes |-> << >>, data |-> ""]

Characters(data) ==
    [kind |-> "Characters", name |-> "", attributes |-> << >>, data |-> data]

CData(data) ==
    [kind |-> "CData", name |-> "", attributes |-> << >>, data |-> data]

\* The last event of a complete document.
EndDocument == [kind |-> "EndDocument", name |-> "", attributes |-> << >>, data |-> ""]

\* Whitespace, Comment, ProcessingInstruction, StartDocument.
Whitespace == [kind |-> "Whitespace", name |-> "", attributes |-> << >>, data |-> " "]

\* The Err item of the reader.
ReaderError == [kind |-> "Error", name |-> "", attributes |-> << >>, data |-> ""]

NoEvent == [kind |-> "None", name |-> "", attributes |-> << >>, data |-> ""]

Attr(name, value) == [name |-> name, value |-> value]

----------------------------------------------------------------------------
(* collections.rs                                                          *)

CollectionType_parse(v) ==
    IF v = "DATA_FEED" THEN Ok("DataFeed") ELSE Err("could not parse")

CollectionService_new(collection_service_type) ==
    [ collection_service_type |-> collection_service_type,
      protocol_binding |-> "",
      address |-> "",
      message_bindings |-> << >>,
      content_bindings |-> << >> ]

Collection_new_empty ==
    [ collection_name |-> "",
      collection_type |-> "Unknown",
      available |-> FALSE,
      description |-> "",
      collection_volume |-> "",
      content_bindings |-> << >>,
      collection_services |-> << >> ]

CollectionTagNames ==
    { "Collection_Information_Response", "Collection", "Description",
      "Collection_Volume", "Content_Binding", "Message_Binding", "Address",
      "Protocol_Binding", "Polling_Service", "Subscription_Service",
      "Receiving_Inbox_Service" }

\* A parse with a lenient default arm.
CollectionTags_parse_lenient(tag) ==
    CASE tag = "Collection_Information_Response" -> Ok("CollectionInformationResponse")
      [] tag = "Collection" -> Ok("Collection")
      [] tag = "Collection_Volume" -> Ok("CollectionVolume")
      [] tag = "Content_Binding" -> Ok("ContentBinding")
      [] tag = "Message_Binding" -> Ok("MessageBinding")
      [] tag = "Address" -> Ok("Address")
      [] tag = "Protocol_Binding" -> Ok("ProtocolBinding")
      [] tag = "Polling_Service" -> Ok("PollingService")
      [] tag = "Subscription_Service" -> Ok("SubscriptionService")
      [] tag = "Receiving_Inbox_Service" -> Ok("ReceivingInboxService")
      [] OTHER -> Ok("Description")

CollectionTags_parse(tag) ==
    CASE tag = "Collection_Information_Response" -> Ok("CollectionInformationResponse")
      [] tag = "Collection" -> Ok("Collection")
      [] tag = "Description" -> Ok("Description")
      [] tag = "Collection_Volume" -> Ok("CollectionVolume")
      [] tag = "Content_Binding" -> Ok("ContentBinding")
      [] tag = "Message_Binding" -> Ok("MessageBinding")
      [] tag = "Address" -> Ok("Address")
      [] tag = "Protocol_Binding" -> Ok("ProtocolBinding")
      [] tag = "Polling_Service" -> Ok("PollingService")
      [] tag = "Subscription_Service" -> Ok("SubscriptionService")
      [] tag = "Receiving_Inbox_Service" -> Ok("ReceivingInboxService")
      [] OTHER -> Err("could not parse tag")

\* A depth table that lets Address in one level too high.
CollectionTags_matches_expected_depth_off(tag, depth) ==
    CASE tag = "CollectionInformationResponse" -> depth = 0
      [] tag = "Collection" -> depth = 1
      [] tag = "Address" -> depth = 2 \/ depth = 3
      [] tag \in { "MessageBinding", "ProtocolBinding", "ContentBinding" } -> depth = 3
      [] OTHER -> depth = 2

CollectionTags_matches_expected_depth(tag, depth) ==
    CASE tag = "CollectionInformationResponse" -> depth = 0
      [] tag = "Collection" -> depth = 1
      [] tag = "Description" -> depth = 2
      [] tag = "CollectionVolume" -> depth = 2
      [] tag = "ContentBinding" -> depth = 2 \/ depth = 3
      [] tag = "MessageBinding" -> depth = 3
      [] tag = "Address" -> depth = 3
      [] tag = "ProtocolBinding" -> depth = 3
      [] tag = "PollingService" -> depth = 2
      [] tag = "SubscriptionService" -> depth = 2
      [] tag = "ReceivingInboxService" -> depth = 2

CollectionTags_to_str(tag) ==
    CASE tag = "CollectionInformationResponse" -> "Collection_Information_Response"
      [] tag = "Collection" -> "Collection"
      [] tag = "Description" -> "Description"
      [] tag = "CollectionVolume" -> "Collection_Volume"
      [] tag = "ContentBinding" -> "Content_Binding"
      [] tag = "MessageBinding" -> "Message_Binding"
      [] tag = "Address" -> "Address"
      [] tag = "ProtocolBinding" -> "Protocol_Binding"
      [] tag = "PollingService" -> "Polling_Service"
      [] tag = "SubscriptionService" -> "Subscription_Service"
      [] tag = "ReceivingInboxService" -> "Receiving_DataFeed_Service"

CollServiceTags == { "PollingService", "SubscriptionService", "ReceivingInboxService" }

\* The locals of parse_collection_information_response.
CollFrame ==
    [ tag_stack |-> tag_stack,
      collection_set |-> collection_set,
      cur_collection |-> cur_collection,
      cur_service |-> cur_service,
      last_value |-> last_value ]

\* `for attr in attributes` of the Collection arm: the collection after all
\* attributes, or the error of the first attribute that fails.
RECURSIVE CollCollectionAttrs(_, _)
CollCollectionAttrs(c, attributes) ==
    IF attributes = << >> THEN Ok(c)
    ELSE LET attr == Head(attributes) IN
         CASE attr.name = "collection_name" ->
                CollCollectionAttrs([c EXCEPT !.collection_name = attr.value],
                                    Tail(attributes))
           [] attr.name = "collection_type" ->
                LET r == CollectionType_parse(attr.value) IN
                IF r.ok
                THEN CollCollectionAttrs([c EXCEPT !.collection_type = r.val],
                                         Tail(attributes))
                ELSE Propagate(r)
           [] attr.name = "available" ->
                CollCollectionAttrs(
                    [c EXCEPT !.available = (ToLowercase(attr.value) = "true")],
                    Tail(attributes))
           [] OTHER -> Err("unrecogized attribute")

\* A ContentBinding arm that always writes to the collection's list.
RECURSIVE CollContentBindingAttrs_toCollection(_, _)
CollContentBindingAttrs_toCollection(f, attributes) ==
    IF attributes = << >> THEN Ok(f)
    ELSE LET attr == Head(attributes) IN
         IF attr.name = "binding_id"
         THEN CollContentBindingAttrs_toCollection(
                  [f EXCEPT !.cur_collection.content_bindings = Append(@, attr.value)],
                  Tail(attributes))
         ELSE Err("unrecogized attribute")

\* `for attr in attributes` of the ContentBinding arm.
RECURSIVE CollContentBindingAttrs(_, _)
CollContentBindingAttrs(f, attributes) ==
    IF attributes = << >> THEN Ok(f)
    ELSE LET attr == Head(attributes) IN
         IF attr.name = "binding_id"
         THEN IF f.cur_service.some
              THEN CollContentBindingAttrs(
                       [f EXCEPT !.cur_service.val.content_bindings =
                                     Append(@, attr.value)],
                       Tail(attributes))
              ELSE CollContentBindingAttrs(
                       [f EXCEPT !.cur_collection.content_bindings =
                                     Append(@, attr.value)],
                       Tail(attributes))
         ELSE Err("unrecogized attribute")

\* A dispatch that lost the Collection arm: its attributes are never looked at.
CollStartDispatch_noCollectionArm(f, tag, attributes) ==
    CASE tag = "ContentBinding" -> CollContentBindingAttrs(f, attributes)
      [] tag \in CollServiceTags ->
            Ok([f EXCEPT !.cur_service = Some(CollectionService_new(tag))])
      [] OTHER -> Ok(f)

\* The arms of `match tag` after the push, for the tags that read attributes
\* or open a service; every other tag carries on.
CollStartDispatch(f, tag, attributes) ==
    CASE tag = "Collection" ->
            LET r == CollCollectionAttrs(f.cur_collection, attributes) IN
            IF r.ok THEN Ok([f EXCEPT !.cur_collection = r.val]) ELSE Propagate(r)
      [] tag = "ContentBinding" -> CollContentBindingAttrs(f, attributes)
      [] tag \in CollServiceTags ->
            Ok([f EXCEPT !.cur_service = Some(CollectionService_new(tag))])
      [] OTHER -> Ok(f)

\* The StartElement arm.
CollStartElement(f, name, attributes) ==
    LET parsed == CollectionTags_parse(name) IN
    IF ~parsed.ok THEN Propagate(parsed)
    ELSE IF ~CollectionTags_matches_expected_depth(parsed.val, Len(f.tag_stack))
    THEN Err("tag at unexpected depth")
    ELSE CollStartDispatch([f EXCEPT !.tag_stack = Append(@, parsed.val)],
                           parsed.val, attributes)

\* A service arm that appends the service and leaves the slot as it is.
CollCloseService_keepsSlot(f) ==
    IF f.cur_service.some
    THEN Ok([f EXCEPT !.cur_collection.collection_services =
                          Append(@, f.cur_service.val)])
    ELSE Err("unexpected end tag for service")

\* The service arm of `match end_tag`.
CollCloseService(f) ==
    IF f.cur_service.some
    THEN Ok([f EXCEPT !.cur_collection.collection_services =
                          Append(@, f.cur_service.val),
                      !.cur_service = None])
    ELSE Err("unexpected end tag for service")

\* A dispatch whose text arms carry on when no service is open.
CollEndDispatch_dropsText(f, end_tag) ==
    CASE end_tag = "Collection" ->
            Ok([f EXCEPT !.collection_set = Append(@, f.cur_collection),
                         !.cur_collection = Collection_new_empty])
      [] end_tag = "Description" ->
            Ok([f EXCEPT !.cur_collection.description = f.last_value])
      [] end_tag = "CollectionVolume" ->
            Ok([f EXCEPT !.cur_collection.collection_volume = f.last_value])
      [] end_tag = "MessageBinding" /\ f.cur_service.some ->
            Ok([f EXCEPT !.cur_service.val.message_bindings = Append(@, f.last_value)])
      [] end_tag = "Address" /\ f.cur_service.some ->
            Ok([f EXCEPT !.cur_service.val.address = f.last_value])
      [] end_tag = "ProtocolBinding" /\ f.cur_service.some ->
            Ok([f EXCEPT !.cur_service.val.protocol_binding = f.last_value])
      [] end_tag \in CollServiceTags -> CollCloseService(f)
      [] OTHER -> Ok(f)

\* `match end_tag`, after the pop.
CollEndDispatch(f, end_tag) ==
    CASE end_tag = "CollectionInformationResponse" -> Ok(f)
      [] end_tag = "Collection" ->
            Ok([f EXCEPT !.collection_set = Append(@, f.cur_collection),
                         !.cur_collection = Collection_new_empty])
      [] end_tag = "Description" ->
            Ok([f EXCEPT !.cur_collection.description = f.last_value])
      [] end_tag = "CollectionVolume" ->
            Ok([f EXCEPT !.cur_collection.collection_volume = f.last_value])
      [] end_tag = "ContentBinding" -> Ok(f)
      [] end_tag = "MessageBinding" ->
            IF f.cur_service.some
            THEN Ok([f EXCEPT !.cur_service.val.message_bindings =
                                  Append(@, f.last_value)])
            ELSE Err("unexpected Address tag")
      [] end_tag = "Address" ->
            IF f.cur_service.some
            THEN Ok([f EXCEPT !.cur_service.val.address = f.last_value])
            ELSE Err("unexpected Address tag")
      [] end_tag = "ProtocolBinding" ->
            IF f.cur_service.some
            THEN Ok([f EXCEPT !.cur_service.val.protocol_binding = f.last_value])
            ELSE Err("unexpected Protocol_Binding tag")
      [] end_tag \in CollServiceTags -> CollCloseService(f)

\* The EndElement arm.
CollEndElement(f, name) ==
    LET parsed == CollectionTags_parse(name) IN
    IF ~parsed.ok THEN Propagate(parsed)
    ELSE IF f.tag_stack = << >> \/ f.tag_stack[Len(f.tag_stack)] # parsed.val
    THEN Err("malformed XML response")
    ELSE CollEndDispatch(
             [f EXCEPT !.tag_stack = SubSeq(@, 1, Len(@) - 1)], parsed.val)

\* A Characters arm that appends to the buffer.
CollCharacters_appends(f, data) ==
    [f EXCEPT !.last_value =
        CASE @ = "" -> data
          [] @ = "a" /\ data = "a" -> "aa"
          [] @ = "a" /\ data = "FULL" -> "aFULL"
          [] @ = "FULL" /\ data = "a" -> "FULLa"
          [] OTHER -> "FULLFULL"]

\* The Err arm.
CollReaderError(f) == Err("reader error")

\* The Characters arm.
CollCharacters(f, data) == [f EXCEPT !.last_value = data]

----------------------------------------------------------------------------
(* services.rs                                                             *)

ServiceType_parse(v) ==
    CASE v = "COLLECTION_MANAGEMENT" -> Ok("CollectionManagement")
      [] v = "DISCOVERY" -> Ok("Discovery")
      [] v = "INBOX" -> Ok("Inbox")
      [] v = "POLL" -> Ok("Poll")
      [] OTHER -> Err("could not parse")

ServiceInstance_new_empty ==
    [ service_type |-> "Undefined",
      service_version |-> "",
      available |-> FALSE,
      protocol_binding |-> "",
      address |-> "",
      message_bindings |-> << >>,
      content_bindings |-> << >>,
      message |-> None ]

DiscoveryTagNames ==
    { "Discovery_Response", "Service_Instance", "Protocol_Binding", "Address",
      "Message_Binding", "Content_Binding", "Message" }

\* The locals of parse_discovery_response.
DiscFrame ==
    [ tag_stack |-> tag_stack,
      services |-> services,
      cur_service |-> cur_instance,
      last_value |-> last_value ]

\* `for attr in attributes` of the Service_Instance arm.
RECURSIVE DiscServiceInstanceAttrs(_, _)
DiscServiceInstanceAttrs(s, attributes) ==
    IF attributes = << >> THEN Ok(s)
    ELSE LET attr == Head(attributes) IN
         CASE attr.name = "service_type" ->
                LET r == ServiceType_parse(attr.value) IN
                IF r.ok
                THEN DiscServiceInstanceAttrs([s EXCEPT !.service_type = r.val],
                                              Tail(attributes))
                ELSE Panic(r.err)
           [] attr.name = "service_version" ->
                DiscServiceInstanceAttrs([s EXCEPT !.service_version = attr.value],
                                         Tail(attributes))
           [] attr.name = "available" ->
                DiscServiceInstanceAttrs(
                    [s EXCEPT !.available = (ToLowercase(attr.value) = "true")],
                    Tail(attributes))
           [] OTHER -> Err("unrecogized attribute")

\* One arm of `match name.local_name.as_str()` for a tag without attributes:
\* the depth test, then the push.
\* A push that does not look at the depth.
DiscPushAt_unchecked(f, depth, tag, msg) ==
    Ok([f EXCEPT !.tag_stack = Append(@, tag)])

DiscPushAt(f, depth, tag, msg) ==
    IF Len(f.tag_stack) # depth THEN Err(msg)
    ELSE Ok([f EXCEPT !.tag_stack = Append(@, tag)])

\* The StartElement arm.
DiscStartElement(f, name, attributes) ==
    CASE name = "Discovery_Response" ->
            DiscPushAt(f, 0, "DiscoveryResponse",
                       "unexpected tag preceeding Discovery_Response")
      [] name = "Service_Instance" ->
            LET p == DiscPushAt(f, 1, "ServiceInstance",
                                "unexpected tag depth for Service_Instance") IN
            IF ~p.ok THEN p
            ELSE LET r == DiscServiceInstanceAttrs(f.cur_service, attributes) IN
                 IF r.ok THEN Ok([p.val EXCEPT !.cur_service = r.val])
                 ELSE Propagate(r)
      [] name = "Protocol_Binding" ->
            DiscPushAt(f, 2, "ProtocolBinding",
                       "unexpected tag depth for Protocol_Binding")
      [] name = "Address" ->
            DiscPushAt(f, 2, "Address", "unexpected tag depth for Address")
      [] name = "Message_Binding" ->
            DiscPushAt(f, 2, "MessageBinding",
                       "unexpected tag depth for Message_Binding")
      [] name = "Content_Binding" ->
            DiscPushAt(f, 2, "ContentBinding",
                       "unexpected tag depth for Content_Binding")
      [] name = "Message" ->
            DiscPushAt(f, 2, "Message", "unexpected tag depth for Message")
      [] OTHER -> Err("unexpected XML tag")

\* The name each InTag is compared with in the EndElement arm.
DiscInTagName(tag) ==
    CASE tag = "DiscoveryResponse" -> "Discovery_Response"
      [] tag = "ServiceInstance" -> "Service_Instance"
      [] tag = "ProtocolBinding" -> "Protocol_Binding"
      [] tag = "Address" -> "Address"
      [] tag = "MessageBinding" -> "Message_Binding"
      [] tag = "ContentBinding" -> "Content_Binding"
      [] tag = "Message" -> "Message"

\* A Service_Instance arm that puts the closed instance in front of the list.
DiscEndDispatch_prepends(f, tag) ==
    CASE tag = "DiscoveryResponse" -> f
      [] tag = "ServiceInstance" ->
            [f EXCEPT !.services = << f.cur_service >> \o @,
                      !.cur_service = ServiceInstance_new_empty]
      [] tag = "ProtocolBinding" ->
            [f EXCEPT !.cur_service.protocol_binding = f.last_value]
      [] tag = "Address" -> [f EXCEPT !.cur_service.address = f.last_value]
      [] tag = "MessageBinding" ->
            [f EXCEPT !.cur_service.message_bindings = Append(@, f.last_value)]
      [] tag = "ContentBinding" ->
            [f EXCEPT !.cur_service.content_bindings = Append(@, f.last_value)]
      [] tag = "Message" -> [f EXCEPT !.cur_service.message = Some(f.last_value)]

\* What the arm of the popped tag does once the name has matched.
DiscEndDispatch(f, tag) ==
    CASE tag = "DiscoveryResponse" -> f
      [] tag = "ServiceInstance" ->
            [f EXCEPT !.services = Append(@, f.cur_service),
                      !.cur_service = ServiceInstance_new_empty]
      [] tag = "ProtocolBinding" ->
            [f EXCEPT !.cur_service.protocol_binding = f.last_value]
      [] tag = "Address" -> [f EXCEPT !.cur_service.address = f.last_value]
      [] tag = "MessageBinding" ->
            [f EXCEPT !.cur_service.message_bindings = Append(@, f.last_value)]
      [] tag = "ContentBinding" ->
            [f EXCEPT !.cur_service.content_bindings = Append(@, f.last_value)]
      [] tag = "Message" -> [f EXCEPT !.cur_service.message = Some(f.last_value)]

\* An EndElement arm that pops without comparing the name.
DiscEndElement_unchecked(f, name) ==
    IF f.tag_stack = << >> THEN Err("unexpected end tag")
    ELSE Ok(DiscEndDispatch([f EXCEPT !.tag_stack = SubSeq(@, 1, Len(@) - 1)],
                            f.tag_stack[Len(f.tag_stack)]))

\* The EndElement arm: `match tag_stack.pop()`.
DiscEndElement(f, name) ==
    IF f.tag_stack = << >> THEN Err("unexpected end tag")
    ELSE LET tag == f.tag_stack[Len(f.tag_stack)] IN
         IF name # DiscInTagName(tag) THEN Err("malformed XML response")
         ELSE Ok(DiscEndDispatch(
                     [f EXCEPT !.tag_stack = SubSeq(@, 1, Len(@) - 1)], tag))

\* The Err arm.
DiscReaderError(f) == Err("reader error")

\* The CData arm.
DiscCData(f, data) == [f EXCEPT !.last_value = data]

\* The Characters arm.
DiscCharacters(f, data) == [f EXCEPT !.last_value = data]

----------------------------------------------------------------------------
(* subscriptions.rs                                                        *)

ResponseType_parse(v) ==
    CASE v = "FULL" -> Ok("Full")
      [] v = "COUNT_ONLY" -> Ok("CountOnly")
      [] OTHER -> Err("could not parse response type")

SubscriptionStatus_parse(v) ==
    CASE v = "ACTIVE" -> Ok("Active")
      [] v = "PAUSED" -> Ok("Paused")
      [] v = "UNSUBSCRIBED" -> Ok("Unsubscribed")
      [] OTHER -> Err("could not parse subscription status")

PollInstance_new_empty ==
    [ protocol_binding |-> "", address |-> "", message_bindings |-> << >> ]

Subscription_new_empty ==
    [ status |-> "Active",
      id |-> "",
      response_type |-> "Full",
      poll_instances |-> << >>,
      collection_name |-> "" ]

SubscriptionResponse_new_empty ==
    [ message_id |-> "",
      in_response_to |-> "",
      subscription |-> Subscription_new_empty ]

SubscriptionTagNames ==
    { "Subscription_Management_Response", "Subscription", "Subscription_ID",
      "Subscription_Parameters", "Response_Type", "Poll_Instance",
      "Protocol_Binding", "Address", "Message_Binding" }

SubscriptionManagementResponseTag_parse(tag) ==
    CASE tag = "Subscription_Management_Response" -> Ok("SubscriptionManagementResponse")
      [] tag = "Subscription" -> Ok("Subscription")
      [] tag = "Subscription_ID" -> Ok("SubscriptionID")
      [] tag = "Subscription_Parameters" -> Ok("SubscriptionParameters")
      [] tag = "Response_Type" -> Ok("ResponseType")
      [] tag = "Poll_Instance" -> Ok("PollInstance")
      [] tag = "Protocol_Binding" -> Ok("ProtocolBinding")
      [] tag = "Address" -> Ok("Address")
      [] tag = "Message_Binding" -> Ok("MessageBinding")
      [] OTHER -> Err("could not parse tag")

SubscriptionManagementResponseTag_matches_expected_depth(tag, depth) ==
    CASE tag = "SubscriptionManagementResponse" -> depth = 0
      [] tag = "Subscription" -> depth = 1
      [] tag = "SubscriptionID" -> depth = 2
      [] tag = "SubscriptionParameters" -> depth = 2
      [] tag = "ResponseType" -> depth = 3
      [] tag = "PollInstance" -> depth = 2
      [] tag = "ProtocolBinding" -> depth = 3
      [] tag = "Address" -> depth = 3
      [] tag = "MessageBinding" -> depth = 3

SubscriptionManagementResponseTag_to_str(tag) ==
    CASE tag = "SubscriptionManagementResponse" -> "Subscription_Management_Response"
      [] tag = "Subscription" -> "Subscription"
      [] tag = "SubscriptionID" -> "Subscription_ID"
      [] tag = "SubscriptionParameters" -> "Subscription_Parameters"
      [] tag = "ResponseType" -> "Response_Type"
      [] tag = "PollInstance" -> "Poll_Instance"
      [] tag = "ProtocolBinding" -> "Protocol_Binding"
      [] tag = "Address" -> "Address"
      [] tag = "MessageBinding" -> "Message_Binding"

\* The locals of parse_subscription_management_response.
SubFrame ==
    [ tag_stack |-> tag_stack,
      subscription_response |-> subscription_response,
      cur_poll_instance |-> cur_poll_instance,
      last_value |-> last_value ]

\* `for attr in attributes` of the SubscriptionManagementResponse arm.
RECURSIVE SubRootAttrs(_, _)
SubRootAttrs(r, attributes) ==
    IF attributes = << >> THEN Ok(r)
    ELSE LET attr == Head(attributes) IN
         CASE attr.name = "message_id" ->
                SubRootAttrs([r EXCEPT !.message_id = attr.value], Tail(attributes))
           [] attr.name = "in_response_to" ->
                SubRootAttrs([r EXCEPT !.in_response_to = attr.value],
                             Tail(attributes))
           [] attr.name = "collection_name" ->
                SubRootAttrs([r EXCEPT !.subscription.collection_name = attr.value],
                             Tail(attributes))
           [] attr.name \in { "xmlns:taxii", "xmlns:taxii_11", "xmlns:tdq" } ->
                SubRootAttrs(r, Tail(attributes))
           [] OTHER -> Err("unrecogized attribute")

\* `for attr in attributes` of the Subscription arm.
RECURSIVE SubSubscriptionAttrs(_, _)
SubSubscriptionAttrs(r, attributes) ==
    IF attributes = << >> THEN Ok(r)
    ELSE LET attr == Head(attributes) IN
         IF attr.name = "status"
         THEN LET st == SubscriptionStatus_parse(attr.value) IN
              IF st.ok
              THEN SubSubscriptionAttrs([r EXCEPT !.subscription.status = st.val],
                                        Tail(attributes))
              ELSE Err(st.err)
         ELSE Err("unrecogized attribute")

\* A Poll_Instance arm that keeps a poll instance that is already there.
SubStartDispatch_keepsPollInstance(f, tag, attributes) ==
    CASE tag = "SubscriptionManagementResponse" ->
            LET r == SubRootAttrs(f.subscription_response, attributes) IN
            IF r.ok THEN Ok([f EXCEPT !.subscription_response = r.val])
            ELSE Propagate(r)
      [] tag = "Subscription" ->
            LET r == SubSubscriptionAttrs(f.subscription_response, attributes) IN
            IF r.ok THEN Ok([f EXCEPT !.subscription_response = r.val])
            ELSE Propagate(r)
      [] tag = "PollInstance" ->
            IF f.cur_poll_instance.some THEN Ok(f)
            ELSE Ok([f EXCEPT !.cur_poll_instance = Some(PollInstance_new_empty)])
      [] OTHER -> Ok(f)

\* `match tag` after the push.
SubStartDispatch(f, tag, attributes) ==
    CASE tag = "SubscriptionManagementResponse" ->
            LET r == SubRootAttrs(f.subscription_response, attributes) IN
            IF r.ok THEN Ok([f EXCEPT !.subscription_response = r.val])
            ELSE Propagate(r)
      [] tag = "Subscription" ->
            LET r == SubSubscriptionAttrs(f.subscription_response, attributes) IN
            IF r.ok THEN Ok([f EXCEPT !.subscription_response = r.val])
            ELSE Propagate(r)
      [] tag = "PollInstance" ->
            Ok([f EXCEPT !.cur_poll_instance = Some(PollInstance_new_empty)])
      [] OTHER -> Ok(f)

\* A start arm that lets Response_Type in only under Subscription_Parameters.
SubStartElement_underParameters(f, name, attributes) ==
    LET parsed == SubscriptionManagementResponseTag_parse(name) IN
    IF ~parsed.ok THEN Propagate(parsed)
    ELSE IF ~SubscriptionManagementResponseTag_matches_expected_depth(
                 parsed.val, Len(f.tag_stack))
    THEN Err("tag at unexpected depth")
    ELSE IF /\ parsed.val = "ResponseType"
            /\ f.tag_stack[Len(f.tag_stack)] # "SubscriptionParameters"
    THEN Err("tag under unexpected parent")
    ELSE SubStartDispatch([f EXCEPT !.tag_stack = Append(@, parsed.val)],
                          parsed.val, attributes)

\* The StartElement arm.
SubStartElement(f, name, attributes) ==
    LET parsed == SubscriptionManagementResponseTag_parse(name) IN
    IF ~parsed.ok THEN Propagate(parsed)
    ELSE IF ~SubscriptionManagementResponseTag_matches_expected_depth(
                 parsed.val, Len(f.tag_stack))
    THEN Err("tag at unexpected depth")
    ELSE SubStartDispatch([f EXCEPT !.tag_stack = Append(@, parsed.val)],
                          parsed.val, attributes)

\* The PollInstance arm of `match end_tag`.
SubClosePollInstance(f) ==
    IF f.cur_poll_instance.some
    THEN Ok([f EXCEPT !.subscription_response.subscription.poll_instances =
                          Append(@, f.cur_poll_instance.val)])
    ELSE Err("unexpected end tag for Poll_Instance")

\* `match end_tag`, after the pop.
SubEndDispatch(f, end_tag) ==
    CASE end_tag = "SubscriptionID" ->
            Ok([f EXCEPT !.subscription_response.subscription.id = f.last_value])
      [] end_tag = "ResponseType" ->
            LET r == ResponseType_parse(f.last_value) IN
            IF r.ok
            THEN Ok([f EXCEPT !.subscription_response.subscription.response_type =
                                  r.val])
            ELSE Propagate(r)
      [] end_tag = "PollInstance" -> SubClosePollInstance(f)
      [] end_tag = "ProtocolBinding" ->
            IF f.cur_poll_instance.some
            THEN Ok([f EXCEPT !.cur_poll_instance.val.protocol_binding =
                                  f.last_value])
            ELSE Err("unexpected Protocol_Binding tag")
      [] end_tag = "Address" ->
            IF f.cur_poll_instance.some
            THEN Ok([f EXCEPT !.cur_poll_instance.val.address = f.last_value])
            ELSE Err("unexpected Address tag")
      [] end_tag = "MessageBinding" ->
            IF f.cur_poll_instance.some
            THEN Ok([f EXCEPT !.cur_poll_instance.val.message_bindings =
                                  Append(@, f.last_value)])
            ELSE Err("unexpected Address tag")
      [] OTHER -> Ok(f)

\* The EndElement arm.
SubEndElement(f, name) ==
    LET parsed == SubscriptionManagementResponseTag_parse(name) IN
    IF ~parsed.ok THEN Propagate(parsed)
    ELSE IF f.tag_stack = << >> \/ f.tag_stack[Len(f.tag_stack)] # parsed.val
    THEN Err("malformed XML response")
    ELSE SubEndDispatch(
             [f EXCEPT !.tag_stack = SubSeq(@, 1, Len(@) - 1)], parsed.val)

\* The Err arm.
SubReaderError(f) == Err("reader error")

\* The Characters arm.
SubCharacters(f, data) == [f EXCEPT !.last_value = data]

----------------------------------------------------------------------------
(* status_message.rs                                                       *)

StatusMessage_new_empty ==
    [ message_id |-> "", in_response_to |-> "", status_type |-> "",
      message |-> None ]

StatusTagNames == { "Status_Message", "Message" }

\* The locals of parse_status_message.
StatFrame ==
    [ tag_stack |-> tag_stack,
      status_message |-> status_message,
      last_value |-> last_value ]

\* An attribute loop that stores message_id and in_response_to crosswise.
RECURSIVE StatRootAttrs_swapped(_, _)
StatRootAttrs_swapped(m, attributes) ==
    IF attributes = << >> THEN Ok(m)
    ELSE LET attr == Head(attributes) IN
         CASE attr.name = "message_id" ->
                StatRootAttrs_swapped([m EXCEPT !.in_response_to = attr.value],
                                      Tail(attributes))
           [] attr.name = "in_response_to" ->
                StatRootAttrs_swapped([m EXCEPT !.message_id = attr.value],
                                      Tail(attributes))
           [] attr.name = "status_type" ->
                StatRootAttrs_swapped([m EXCEPT !.status_type = attr.value],
                                      Tail(attributes))
           [] OTHER -> Err("unrecogized attribute")

\* `for attr in attributes` of the Status_Message arm.
RECURSIVE StatRootAttrs(_, _)
StatRootAttrs(m, attributes) ==
    IF attributes = << >> THEN Ok(m)
    ELSE LET attr == Head(attributes) IN
         CASE attr.name = "message_id" ->
                StatRootAttrs([m EXCEPT !.message_id = attr.value], Tail(attributes))
           [] attr.name = "in_response_to" ->
                StatRootAttrs([m EXCEPT !.in_response_to = attr.value],
                              Tail(attributes))
           [] attr.name = "status_type" ->
                StatRootAttrs([m EXCEPT !.status_type = attr.value],
                              Tail(attributes))
           [] OTHER -> Err("unrecogized attribute")

\* The StartElement arm.
StatStartElement(f, name, attributes) ==
    CASE name = "Status_Message" ->
            IF Len(f.tag_stack) # 0
            THEN Err("unexpected tag preceeding Status_Message")
            ELSE LET r == StatRootAttrs(f.status_message, attributes) IN
                 IF r.ok
                 THEN Ok([f EXCEPT !.tag_stack = Append(@, "StatusMessage"),
                                   !.status_message = r.val])
                 ELSE Propagate(r)
      [] name = "Message" ->
            IF Len(f.tag_stack) # 1 THEN Err("unexpected tag depth for Message")
            ELSE Ok([f EXCEPT !.tag_stack = Append(@, "Message")])
      [] OTHER -> Err("unexpected XML tag")

\* The EndElement arm: `match tag_stack.pop()`.
StatEndElement(f, name) ==
    IF f.tag_stack = << >> THEN Err("unexpected end tag")
    ELSE LET tag == f.tag_stack[Len(f.tag_stack)]
             g == [f EXCEPT !.tag_stack = SubSeq(@, 1, Len(@) - 1)] IN
         CASE tag = "StatusMessage" ->
                IF name # "Status_Message" THEN Err("malformed XML response")
                ELSE Ok(g)
           [] tag = "Message" ->
                IF name # "Message" THEN Err("malformed XML response")
                ELSE Ok([g EXCEPT !.status_message.message = Some(f.last_value)])

\* An Err arm that carries on.
StatReaderError_ignored(f) == Ok(f)

\* The Err arm.
StatReaderError(f) == Err("reader error")

\* The CData arm.
StatCData(f, data) == [f EXCEPT !.last_value = data]

\* The Characters arm.
StatCharacters(f, data) == [f EXCEPT !.last_value = data]

----------------------------------------------------------------------------
(* version.rs, and the request composer of subscriptions.rs                *)

NAMESPACE_10 == "http://taxii.mitre.org/messages/taxii_xml_binding-1"

NAMESPACE_11 == "http://taxii.mitre.org/messages/taxii_xml_binding-1.1"

Version_xml_namespace(ver) ==
    CASE ver = "V10" -> Ok(NAMESPACE_10)
      [] ver = "V11" -> Ok(NAMESPACE_11)
      [] OTHER -> Panic("TODO: version does not support XML")

\* u64::to_string of the values the random source may yield.
DecimalString(n) == CASE n = 1 -> "1" [] n = 2 -> "2"

\* Uuid::to_string of the UUIDs the random source may yield.
UuidString(n) ==
    CASE n = 1 -> "00000000-0000-4000-8000-000000000001"
      [] n = 2 -> "00000000-0000-4000-8000-000000000002"

\* Version::message_id; r is what the random source yields.
Version_message_id(ver, r) ==
    CASE ver = "V10" -> Ok(DecimalString(r))
      [] ver = "V11" -> Ok(UuidString(r))
      [] OTHER -> Panic("TODO: does V21 use message IDs?")

SubscribeAction_to_str(action) ==
    CASE action = "Subscribe" -> "SUBSCRIBE"
      [] action = "Unsubscribe" -> "UNSUBSCRIBE"
      [] action = "Pause" -> "PAUSE"
      [] action = "Resume" -> "RESUME"
      [] action = "Status" -> "STATUS"

ResponseType_to_str(t) ==
    CASE t = "Full" -> "FULL"
      [] t = "CountOnly" -> "COUNT_ONLY"

\* writer::XmlEvent::start_element(name), and its builder methods.
start_element(name) ==
    [kind |-> "StartElement", name |-> name, attributes |-> << >>, ns |-> None]

attr(elem, name, value) == [elem EXCEPT !.attributes = Append(@, Attr(name, value))]

ns(elem, prefix, uri) == [elem EXCEPT !.ns = Some([prefix |-> prefix, uri |-> uri])]

\* writer::XmlEvent::characters(data).
characters(data) == [kind |-> "Characters", data |-> data]

\* writer::XmlEvent::end_element(): closes whatever element is open.
end_element == [kind |-> "EndElement"]

\* EmitterConfig::new().write_document_declaration(false).perform_indent(true)
\*     .create_writer(&mut buf_writer)
\* A fresh EventWriter over an empty buf_writer: the events it was given (buf),
\* the names of the elements that are open, the text in buf_writer (out), and
\* the emitter's indentation state.
NewWriter ==
    [buf |-> << >>, open |-> << >>, out |-> "", indent_level |-> 0,
     indent_stack |-> << "WroteNothing" >>, just_wrote_start_element |-> FALSE]

\* The emitter's indent_string, level times.
RECURSIVE Indent(_)
Indent(level) == IF level = 0 THEN "" ELSE "  " \o Indent(level - 1)

wrote_text(w) == w.indent_stack[Len(w.indent_stack)] = "WroteText"

wrote_markup(w) == w.indent_stack[Len(w.indent_stack)] = "WroteMarkup"

set_wrote_text(w) == [w EXCEPT !.indent_stack[Len(w.indent_stack)] = "WroteText"]

set_wrote_markup(w) == [w EXCEPT !.indent_stack[Len(w.indent_stack)] = "WroteMarkup"]

\* The start tag left open by the last start_element is closed with ">".
fix_non_empty_element(w) ==
    IF w.just_wrote_start_element
    THEN [w EXCEPT !.just_wrote_start_element = FALSE, !.out = @ \o ">"]
    ELSE w

write_newline(w, level) == [w EXCEPT !.out = @ \o "\n" \o Indent(level)]

\* perform_indent: a new line before markup that follows markup.
before_markup(w) ==
    IF ~wrote_text(w) /\ (w.indent_level > 0 \/ wrote_markup(w))
    THEN LET n == write_newline(w, w.indent_level) IN
         IF w.indent_level > 0 THEN set_wrote_markup(n) ELSE n
    ELSE w

before_end_element(w) ==
    IF w.indent_level > 0 /\ wrote_markup(w) /\ ~wrote_text(w)
    THEN write_newline(w, w.indent_level - 1)
    ELSE w

after_end_element(w) ==
    set_wrote_markup(
        IF w.indent_level > 0
        THEN [w EXCEPT !.indent_level = @ - 1,
                       !.indent_stack = SubSeq(@, 1, Len(@) - 1)]
        ELSE w)

\* The namespace declaration of a start tag.  None of the strings written
\* here holds a character the writer escapes.
NamespaceText(n) ==
    IF n.some THEN " xmlns:" \o n.val.prefix \o "=\"" \o n.val.uri \o "\"" ELSE ""

\* The attributes of a start tag, in the order they were added.
RECURSIVE AttributesText(_)
AttributesText(attributes) ==
    IF attributes = << >> THEN ""
    ELSE " " \o Head(attributes).name \o "=\"" \o Head(attributes).value \o "\""
         \o AttributesText(Tail(attributes))

\* The start tag is written up to its last attribute and left open.
emit_start_element(w, event) ==
    LET a == before_markup(fix_non_empty_element(w))
        b == [a EXCEPT !.indent_stack = Append(@, "WroteNothing"),
                       !.out = @ \o "<" \o event.name
                                 \o NamespaceText(event.ns)
                                 \o AttributesText(event.attributes)] IN
    [set_wrote_markup(b) EXCEPT !.indent_level = @ + 1,
                                !.just_wrote_start_element = TRUE]

\* An element closed right after its start tag is written self-closed.
emit_end_element(w, name) ==
    IF w.just_wrote_start_element
    THEN after_end_element([w EXCEPT !.just_wrote_start_element = FALSE,
                                     !.out = @ \o " />"])
    ELSE after_end_element([before_end_element(w) EXCEPT
                                !.out = @ \o "</" \o name \o ">"])

emit_characters(w, data) ==
    set_wrote_text([fix_non_empty_element(w) EXCEPT !.out = @ \o data])

\* EventWriter::write: an end_element with no element open is an error.
EventWriter_write(w, event) ==
    CASE event.kind = "StartElement" ->
            Ok([emit_start_element(w, event) EXCEPT
                    !.buf = Append(@, event), !.open = Append(@, event.name)])
      [] event.kind = "EndElement" ->
            IF w.open = << >> THEN Err("last element name is not available")
            ELSE Ok([emit_end_element(w, w.open[Len(w.open)]) EXCEPT
                        !.buf = Append(@, [kind |-> "EndElement",
                                           name |-> w.open[Len(w.open)]]),
                        !.open = SubSeq(@, 1, Len(@) - 1)])
      [] event.kind = "Characters" ->
            Ok([emit_characters(w, event.data) EXCEPT !.buf = Append(@, event)])

write_xml(w, event) ==
    LET r == EventWriter_write(w, event) IN
    IF r.ok THEN r ELSE Err(r.err)

\* `write_xml(..)?; write_xml(..)?; ...`: the events one after the other, up
\* to the first that fails.
RECURSIVE WriteEach(_, _)
WriteEach(w, events) ==
    IF events = << >> THEN Ok(w)
    ELSE LET r == write_xml(w, Head(events)) IN
         IF r.ok THEN WriteEach(r.val, Tail(events)) ELSE Propagate(r)

\* write_xml_tag_with_data without its third write.
write_xml_tag_with_data_unclosed(w, tag, data) ==
    WriteEach(w, << start_element(tag), characters(data) >>)

write_xml_tag_with_data(w, tag, data) ==
    WriteEach(w, << start_element(tag), characters(data), end_element >>)

\* Lines 96-105 with collection_name as the first attribute.
ComposeRoot_nameFirst(w, a, r) ==
    LET msg_id == Version_message_id(a.ver, r) IN
    IF ~msg_id.ok THEN Propagate(msg_id)
    ELSE LET uri == Version_xml_namespace(a.ver) IN
         IF ~uri.ok THEN Propagate(uri)
         ELSE write_xml(w,
                  ns(attr(attr(attr(
                         start_element("taxii_11:Subscription_Management_Request"),
                         "collection_name", a.collection_name),
                         "action", SubscribeAction_to_str(a.action)),
                         "message_id", msg_id.val),
                     "taxii_11", uri.val))

\* Lines 96-105: the message id, the root element, its write.
ComposeRoot(w, a, r) ==
    LET msg_id == Version_message_id(a.ver, r) IN
    IF ~msg_id.ok THEN Propagate(msg_id)
    ELSE LET uri == Version_xml_namespace(a.ver) IN
         IF ~uri.ok THEN Propagate(uri)
         ELSE write_xml(w,
                  ns(attr(attr(attr(
                         start_element("taxii_11:Subscription_Management_Request"),
                         "action", SubscribeAction_to_str(a.action)),
                         "message_id", msg_id.val),
                         "collection_name", a.collection_name),
                     "taxii_11", uri.val))

\* Lines 107-119 with the rejection of an id given with SUBSCRIBE left out.
ComposeSubscriptionId_lenient(w, a) ==
    IF a.action # "Subscribe" /\ a.subscription_id.some
    THEN write_xml_tag_with_data(w, "taxii_11:Subscription_ID", a.subscription_id.val)
    ELSE Ok(w)

\* Lines 107-119 with the Subscription_ID element written without its text.
ComposeSubscriptionId_noText(w, a) ==
    LET r == IF a.action # "Subscribe" /\ a.subscription_id.some
             THEN WriteEach(w, << start_element("taxii_11:Subscription_ID"),
                                  end_element >>)
             ELSE Ok(w) IN
    IF ~r.ok THEN Propagate(r)
    ELSE IF a.action = "Subscribe" /\ a.subscription_id.some
    THEN Err("unexpected subscription ID provided with subscribe action")
    ELSE r

\* Lines 107-119: the Subscription_ID child, or the rejection of an id given
\* with SUBSCRIBE.
ComposeSubscriptionId(w, a) ==
    LET r == IF a.action # "Subscribe" /\ a.subscription_id.some
             THEN write_xml_tag_with_data(w, "taxii_11:Subscription_ID",
                                          a.subscription_id.val)
             ELSE Ok(w) IN
    IF ~r.ok THEN Propagate(r)
    ELSE IF a.action = "Subscribe" /\ a.subscription_id.some
    THEN Err("unexpected subscription ID provided with subscribe action")
    ELSE r

\* `for content_binding in subscription_parameters.content_bindings.iter()`:
\* the events the loop writes.
RECURSIVE ContentBindingEvents(_)
ContentBindingEvents(content_bindings) ==
    IF content_bindings = << >> THEN << >>
    ELSE LET content_binding == Head(content_bindings) IN
         << attr(start_element("taxii_11:Content_Binding"),
                 "binding_id", content_binding.binding_id) >>
         \o (IF content_binding.subtype_id.some
             THEN << attr(start_element("taxii_11:Subtype"),
                          "binding_id", content_binding.subtype_id.val),
                     end_element >>
             ELSE << >>)
         \o << end_element >>
         \o ContentBindingEvents(Tail(content_bindings))

\* `match &subscription_parameters.query`: the events it writes.
QueryEvents(p) ==
    IF p.query.some
    THEN << IF p.query_format_id.some
            THEN attr(start_element("taxii_11:Query"),
                      "format_id", p.query_format_id.val)
            ELSE start_element("taxii_11:Query"),
            characters(p.query.val),
            end_element >>
    ELSE << >>

\* Lines 121-183: the Subscription_Parameters child.
ComposeSubscriptionParameters(w, a) ==
    IF a.action = "Subscribe" /\ a.subscription_parameters.some
    THEN LET p == a.subscription_parameters.val IN
         WriteEach(w,
             << start_element("taxii_11:Subscription_Parameters"),
                start_element("taxii_11:Response_Type"),
                characters(ResponseType_to_str(p.reponse_type)),
                end_element >>
             \o ContentBindingEvents(p.content_bindings)
             \o QueryEvents(p)
             \o << end_element >>)
    ELSE Ok(w)

\* Lines 184-217 without the test of the action.
ComposePushParameters_anyAction(w, a) ==
    IF a.push_parameters.some
    THEN LET p == a.push_parameters.val IN
         WriteEach(w,
             << start_element("taxii_11:Push_Parameters"),
                start_element("taxii_11:Protocol_Binding"),
                characters(p.protocol_binding), end_element,
                start_element("taxii_11:Address"),
                characters(p.address), end_element,
                start_element("taxii_11:Message_Binding"),
                characters(p.message_binding), end_element,
                end_element >>)
    ELSE Ok(w)

\* Lines 184-217: the Push_Parameters child.
ComposePushParameters(w, a) ==
    IF a.action = "Subscribe" /\ a.push_parameters.some
    THEN LET p == a.push_parameters.val IN
         WriteEach(w,
             << start_element("taxii_11:Push_Parameters"),
                start_element("taxii_11:Protocol_Binding"),
                characters(p.protocol_binding), end_element,
                start_element("taxii_11:Address"),
                characters(p.address), end_element,
                start_element("taxii_11:Message_Binding"),
                characters(p.message_binding), end_element,
                end_element >>)
    ELSE Ok(w)

\* Lines 219-220: the end of the root element.
ComposeEnd(w, a) == write_xml(w, end_element)

(* version.rs: its own copy of create_subscribe_request_body, with the      *)
(* SubscribeAction and ResponseType enums that version.rs declares.         *)

\* SubscribeAction::to_str of version.rs with PAUSE and RESUME exchanged.
version_SubscribeAction_to_str_swapped(action) ==
    CASE action = "Subscribe" -> "SUBSCRIBE"
      [] action = "Unsubscribe" -> "UNSUBSCRIBE"
      [] action = "Pause" -> "RESUME"
      [] action = "Resume" -> "PAUSE"
      [] action = "Status" -> "STATUS"

version_SubscribeAction_to_str(action) ==
    CASE action = "Subscribe" -> "SUBSCRIBE"
      [] action = "Unsubscribe" -> "UNSUBSCRIBE"
      [] action = "Pause" -> "PAUSE"
      [] action = "Resume" -> "RESUME"
      [] action = "Status" -> "STATUS"

version_ResponseType_to_str(t) ==
    CASE t = "Full" -> "FULL"
      [] t = "CountOnly" -> "COUNT_ONLY"

\* version.rs lines 225-245, the loop over content_bindings: each write
\* followed by `?`.
RECURSIVE version_write_content_bindings(_, _)
version_write_content_bindings(w, content_bindings) ==
    IF content_bindings = << >> THEN Ok(w)
    ELSE
      LET content_binding == Head(content_bindings)
          r1 == write_xml(w, attr(start_element("taxii_11:Content_Binding"),
                                  "binding_id", content_binding.binding_id))
      IN
      IF ~r1.ok THEN Propagate(r1) ELSE
      LET r2 == IF content_binding.subtype_id.some
                THEN LET r21 == write_xml(r1.val,
                                    attr(start_element("taxii_11:Subtype"),
                                         "binding_id", content_binding.subtype_id.val))
                     IN IF ~r21.ok THEN Propagate(r21)
                        ELSE write_xml(r21.val, end_element)
                ELSE r1
      IN
      IF ~r2.ok THEN Propagate(r2) ELSE
      LET r3 == write_xml(r2.val, end_element) IN
      IF ~r3.ok THEN Propagate(r3)
      ELSE version_write_content_bindings(r3.val, Tail(content_bindings))

\* version.rs lines 247-267, `match &subscription_parameters.query`.
version_write_query(w, subscription_parameters) ==
    IF ~subscription_parameters.query.some THEN Ok(w) ELSE
    LET r1 == IF subscription_parameters.query_format_id.some
              THEN write_xml(w, attr(start_element("taxii_11:Query"), "format_id",
                                     subscription_parameters.query_format_id.val))
              ELSE write_xml(w, start_element("taxii_11:Query"))
    IN
    IF ~r1.ok THEN Propagate(r1) ELSE
    LET r2 == write_xml(r1.val, characters(subscription_parameters.query.val)) IN
    IF ~r2.ok THEN Propagate(r2)
    ELSE write_xml(r2.val, end_element)

\* version.rs lines 172-312: create_subscribe_request_body from its first to
\* its last statement; Ok carries the writer whose text is returned.
version_create_subscribe_request_body(a, r) ==
    LET msg_id == Version_message_id(a.ver, r) IN
    IF ~msg_id.ok THEN Propagate(msg_id) ELSE
    LET uri == Version_xml_namespace(a.ver) IN
    IF ~uri.ok THEN Propagate(uri) ELSE
    LET elem == ns(attr(attr(attr(
                    start_element("taxii_11:Subscription_Management_Request"),
                    "action", version_SubscribeAction_to_str(a.action)),
                    "message_id", msg_id.val),
                    "collection_name", a.collection_name),
                   "taxii_11", uri.val)
        root == write_xml(NewWriter, elem)
    IN
    IF ~root.ok THEN Propagate(root) ELSE
    LET id == IF a.action # "Subscribe" /\ a.subscription_id.some
              THEN write_xml_tag_with_data(root.val, "taxii_11:Subscription_ID",
                                           a.subscription_id.val)
              ELSE root
    IN
    IF ~id.ok THEN Propagate(id) ELSE
    IF a.action = "Subscribe" /\ a.subscription_id.some
    THEN Err("unexpected subscription ID provided with subscribe action") ELSE
    LET params ==
          IF a.action = "Subscribe" /\ a.subscription_parameters.some
          THEN LET subscription_parameters == a.subscription_parameters.val
                   p1 == write_xml(id.val,
                             start_element("taxii_11:Subscription_Parameters"))
               IN
               IF ~p1.ok THEN Propagate(p1) ELSE
               LET p2 == write_xml_tag_with_data(p1.val, "taxii_11:Response_Type",
                           version_ResponseType_to_str(
                               subscription_parameters.reponse_type))
               IN
               IF ~p2.ok THEN Propagate(p2) ELSE
               LET p3 == version_write_content_bindings(p2.val,
                             subscription_parameters.content_bindings)
               IN
               IF ~p3.ok THEN Propagate(p3) ELSE
               LET p4 == version_write_query(p3.val, subscription_parameters) IN
               IF ~p4.ok THEN Propagate(p4)
               ELSE write_xml(p4.val, end_element)
          ELSE id
    IN
    IF ~params.ok THEN Propagate(params) ELSE
    LET push ==
          IF a.action = "Subscribe" /\ a.push_parameters.some
          THEN LET push_parameters == a.push_parameters.val
                   q1 == write_xml(params.val,
                             start_element("taxii_11:Push_Parameters"))
               IN
               IF ~q1.ok THEN Propagate(q1) ELSE
               LET q2 == write_xml_tag_with_data(q1.val, "taxii_11:Protocol_Binding",
                             push_parameters.protocol_binding)
               IN
               IF ~q2.ok THEN Propagate(q2) ELSE
               LET q3 == write_xml_tag_with_data(q2.val, "taxii_11:Address",
                             push_parameters.address)
               IN
               IF ~q3.ok THEN Propagate(q3) ELSE
               LET q4 == write_xml_tag_with_data(q3.val, "taxii_11:Message_Binding",
                             push_parameters.message_binding)
               IN
               IF ~q4.ok THEN Propagate(q4)
               ELSE write_xml(q4.val, end_element)
          ELSE params
    IN
    IF ~push.ok THEN Propagate(push)
    ELSE write_xml(push.val, end_element)

(* poll.rs *)

Digit(d) ==
    CASE d = 0 -> "0" [] d = 1 -> "1" [] d = 2 -> "2" [] d = 3 -> "3"
      [] d = 4 -> "4" [] d = 5 -> "5" [] d = 6 -> "6" [] d = 7 -> "7"
      [] d = 8 -> "8" [] d = 9 -> "9"

\* n in decimal, zero-padded to width digits.
RECURSIVE Padded(_, _)
Padded(n, width) ==
    IF width = 0 THEN "" ELSE Padded(n \div 10, width - 1) \o Digit(n % 10)

\* DateTime<Utc>::to_rfc3339 of a time with whole seconds.
DateTime_to_rfc3339(t) ==
    Padded(t.year, 4) \o "-" \o Padded(t.month, 2) \o "-" \o Padded(t.day, 2)
    \o "T" \o Padded(t.hour, 2) \o ":" \o Padded(t.minute, 2) \o ":"
    \o Padded(t.second, 2) \o "+00:00"

\* Lines 41-49: the message id, the root element, its write.
PollRoot(w, a, r) ==
    LET msg_id == Version_message_id(a.ver, r) IN
    IF ~msg_id.ok THEN Propagate(msg_id)
    ELSE LET uri == Version_xml_namespace(a.ver) IN
         IF ~uri.ok THEN Propagate(uri)
         ELSE write_xml(w,
                  ns(attr(attr(start_element("taxii_11:Poll_Request"),
                         "message_id", msg_id.val),
                         "collection_name", a.collection_name),
                     "taxii_11", uri.val))

\* Lines 51-61 writing the inclusive end of the time range as well.
PollTimeRange_withEnd(w, a) ==
    IF a.time_range.some /\ a.time_range.val.inclusive_end.some
    THEN write_xml_tag_with_data(w, "taxii_11:Inclusive_End_Timestamp",
             DateTime_to_rfc3339(a.time_range.val.inclusive_end.val))
    ELSE Ok(w)

\* Lines 51-61: `match time_range`.
PollTimeRange(w, a) ==
    IF a.time_range.some /\ a.time_range.val.exclusive_begin.some
    THEN write_xml_tag_with_data(w, "taxii_11:Exclusive_Begin_Timestamp",
             DateTime_to_rfc3339(a.time_range.val.exclusive_begin.val))
    ELSE Ok(w)

\* Line 66.
PollSubscriptionId(w, a) ==
    write_xml_tag_with_data(w, "taxii_11:Subscription_ID", a.subscription_id)

\* Line 71: the end of the root element.
PollEnd(w, a) == write_xml(w, end_element)

\* version.rs, create_discovery_request_body and
\* create_collection_information_request_body: the tag each passes to
\* create_simple_request_body.
SimpleRequestTag(fn) ==
    CASE fn = "create_discovery_request_body" -> "Discovery_Request"
      [] fn = "create_collection_information_request_body" ->
            "Collection_Information_Request"

\* create_simple_request_body that takes V21 for V11.
SimpleRoot_anyVersion(w, tag, ver, r) ==
    LET v == IF ver = "V21" THEN "V11" ELSE ver IN
    write_xml(w,
        ns(attr(start_element("taxii_11:" \o tag), "message_id",
                Version_message_id(v, r).val),
           "taxii_11", Version_xml_namespace(v).val))

\* create_simple_request_body up to the write of the root's start
\* (version.rs lines 314-328).
SimpleRoot(w, tag, ver, r) ==
    LET msg_id == Version_message_id(ver, r) IN
    IF ~msg_id.ok THEN Propagate(msg_id)
    ELSE LET uri == Version_xml_namespace(ver) IN
         IF ~uri.ok THEN Propagate(uri)
         ELSE write_xml(w,
                  ns(attr(start_element("taxii_11:" \o tag), "message_id", msg_id.val),
                     "taxii_11", uri.val))

\* Lines 329-335: the end of the root element.
SimpleEnd(w) == write_xml(w, end_element)

----------------------------------------------------------------------------
(* taxii21/middleware.rs and taxii21/server.rs                             *)

\* Strings the server matches character by character are sequences of
\* characters.
MediaTypeChars ==
    << "a", "p", "p", "l", "i", "c", "a", "t", "i", "o", "n", "/",
       "t", "a", "x", "i", "i", "+", "j", "s", "o", "n" >>

VersionParamChars == << ";", "v", "e", "r", "s", "i", "o", "n", "=" >>

SUPPORTED_TAXII_VERSION == << "2", ".", "1" >>

CONTENT_TYPE_TAXII2 == "application/taxii+json;version=2.1"

IsDigit(ch) == ch \in { "0", "1", "2", "3", "4", "5", "6", "7", "8", "9" }

\* HeaderValue::to_str: an error when a byte is not visible ASCII.
HeaderValue_to_str(v) ==
    IF \E i \in DOMAIN v : v[i] = "0xE9" THEN Err("ToStrError") ELSE Ok(v)

\* RE.captures(v) for RE = ^application/taxii\+json(;version=(\d\.\d))?$ :
\* the second group of the match, if v matches.
RE_captures(v) ==
    LET m == Len(MediaTypeChars)
        p == Len(VersionParamChars) IN
    IF Len(v) >= m /\ SubSeq(v, 1, m) = MediaTypeChars
    THEN IF Len(v) = m THEN Some([group2 |-> None])
         ELSE IF /\ Len(v) = m + p + 3
                 /\ SubSeq(v, m + 1, m + p) = VersionParamChars
                 /\ IsDigit(v[m + p + 1]) /\ v[m + p + 2] = "." /\ IsDigit(v[m + p + 3])
              THEN Some([group2 |-> Some(SubSeq(v, m + p + 1, m + p + 3))])
              ELSE None
    ELSE None

\* A check that is content with the media type alone.
valid_accept_header_anyVersion(accept) ==
    IF accept.some
    THEN LET v == HeaderValue_to_str(accept.val) IN
         IF v.ok THEN RE_captures(v.val).some ELSE FALSE
    ELSE FALSE

\* Lines 53-65 of CheckAcceptHeaderMiddleware::call.
valid_accept_header(accept) ==
    IF accept.some
    THEN LET v == HeaderValue_to_str(accept.val) IN
         IF v.ok
         THEN LET c == RE_captures(v.val) IN
              IF c.some
              THEN LET ver == IF c.val.group2.some THEN c.val.group2.val ELSE << >> IN
                   ver = SUPPORTED_TAXII_VERSION
              ELSE FALSE
         ELSE FALSE
    ELSE FALSE

\* HashMap: get, insert, remove.
HashMap_new == [k \in { } |-> None]

HashMap_get(m, k) == IF k \in DOMAIN m THEN Some(m[k]) ELSE None

HashMap_insert(m, k, v) == [x \in DOMAIN m \cup { k } |-> IF x = k THEN v ELSE m[x]]

HashMap_remove(m, k) == [x \in DOMAIN m \ { k } |-> m[x]]

Discovery_new_empty ==
    [title |-> "", description |-> None, contact |-> None, default |-> None,
     api_roots |-> None]

APIRootConfig_new(title, description, versions, max_content_length) ==
    [title |-> title, description |-> description, versions |-> versions,
     max_content_length |-> max_content_length]

Collections_new == [collections |-> None]

APIRoot_new(config) ==
    [config |-> config, api_root_server_record_limit |-> None,
     statii |-> HashMap_new, collections |-> Collections_new]

\* APIRoot::add_status keeping a status that is already stored under the id.
APIRoot_add_status_keepsFirst(api_root, status) ==
    IF status.id \in DOMAIN api_root.statii THEN api_root
    ELSE [api_root EXCEPT !.statii = HashMap_insert(@, status.id, status)]

APIRoot_add_status(api_root, status) ==
    [api_root EXCEPT !.statii = HashMap_insert(@, status.id, status)]

Status_new(id) ==
    [id |-> id, status |-> "", request_timestamp |-> None, total_count |-> 0,
     success_count |-> 0, successes |-> None, failure_count |-> 0,
     failures |-> None, pending_count |-> 0, pendings |-> None]

DEFAULT_SERVER_LIMIT == 100

AppState_new_empty ==
    [server |-> Discovery_new_empty,
     default_server_record_limit |-> DEFAULT_SERVER_LIMIT,
     api_roots |-> HashMap_new]

\* AppState::add_status: the result, and the state after it.
AppState_add_status(state, api_root, status) ==
    IF api_root \in DOMAIN state.api_roots
    THEN [ret |-> Ok("()"),
          state |-> [state EXCEPT !.api_roots[api_root] = APIRoot_add_status(@, status)]]
    ELSE [ret |-> Err("could not find api_root=" \o api_root), state |-> state]

AppState_get_status(state, api_root, status_id) ==
    LET r == HashMap_get(state.api_roots, api_root) IN
    IF r.some THEN HashMap_get(r.val.statii, status_id) ELSE None

\* web::Json(v): the value as the body's JSON document.
Json(v) == [json |-> v]

\* HttpResponse::Ok().append_header(("Content-Type", ..)).json(..)
HttpResponse_Ok(body) ==
    [status |-> 200, content_type |-> Some(CONTENT_TYPE_TAXII2), body |-> Some(Json(body))]

\* HttpResponse::NotFound().finish()
HttpResponse_NotFound == [status |-> 404, content_type |-> None, body |-> None]

\* HttpResponse::NotAcceptable().finish()
HttpResponse_NotAcceptable == [status |-> 406, content_type |-> None, body |-> None]

handle_discovery(state) == HttpResponse_Ok(state.server)

\* handle_api_root answering with the configuration of any root there is.
handle_api_root_anyRoot(state, api_root) ==
    IF DOMAIN state.api_roots # { }
    THEN HttpResponse_Ok(state.api_roots[CHOOSE k \in DOMAIN state.api_roots : TRUE].config)
    ELSE HttpResponse_NotFound

handle_api_root(state, api_root) ==
    LET v == HashMap_get(state.api_roots, api_root) IN
    IF v.some THEN HttpResponse_Ok(v.val.config) ELSE HttpResponse_NotFound

handle_api_root_status(state, api_root, status_id) ==
    LET status == AppState_get_status(state, api_root, status_id) IN
    IF status.some THEN HttpResponse_Ok(status.val) ELSE HttpResponse_NotFound

CollectionConfig_new(id, title) ==
    [id |-> id, title |-> title, description |-> None, alias |-> None,
     can_read |-> FALSE, can_write |-> FALSE, media_types |-> None]

\* Collections::add_collection putting the new collection first.
Collections_add_collection_first(self, collection) ==
    IF self.collections.some
    THEN [self EXCEPT !.collections = Some(<< collection >> \o @.val)]
    ELSE [self EXCEPT !.collections = Some(<< collection >>)]

Collections_add_collection(self, collection) ==
    IF self.collections.some
    THEN [self EXCEPT !.collections = Some(Append(@.val, collection))]
    ELSE [self EXCEPT !.collections = Some(<< collection >>)]

\* Collections::get_collection returning the last collection with the id.
Collections_get_collection_last(self, id) ==
    IF self.collections.some
    THEN LET collections == self.collections.val
             hits == { pos \in DOMAIN collections : collections[pos].id = id } IN
         IF hits # { }
         THEN Some(collections[CHOOSE pos \in hits : \A q \in hits : q <= pos])
         ELSE None
    ELSE None

\* Collections::get_collection: the loop returns at the first position whose
\* collection has the id.
Collections_get_collection(self, id) ==
    IF self.collections.some
    THEN LET collections == self.collections.val
             hits == { pos \in DOMAIN collections : collections[pos].id = id } IN
         IF hits # { }
         THEN Some(collections[CHOOSE pos \in hits : \A q \in hits : pos <= q])
         ELSE None
    ELSE None

APIRoot_add_collection(api_root, collection) ==
    [api_root EXCEPT !.collections = Collections_add_collection(@, collection)]

\* AppState::add_collection: the result, and the state after it.
AppState_add_collection(state, api_root, collection) ==
    IF api_root \in DOMAIN state.api_roots
    THEN [ret |-> Ok("()"),
          state |-> [state EXCEPT
                       !.api_roots[api_root] = APIRoot_add_collection(@, collection)]]
    ELSE [ret |-> Err("could not find api_root=" \o api_root), state |-> state]

AppState_get_collections(state, api_root) ==
    LET r == HashMap_get(state.api_roots, api_root) IN
    IF r.some THEN Some(r.val.collections) ELSE None

handle_api_root_collections(state, api_root) ==
    LET collections == AppState_get_collections(state, api_root) IN
    IF collections.some THEN HttpResponse_Ok(collections.val)
    ELSE HttpResponse_NotFound

handle_api_root_collection(state, api_root, collection_id) ==
    LET collections == AppState_get_collections(state, api_root) IN
    IF collections.some
    THEN LET collection == Collections_get_collection(collections.val, collection_id) IN
         IF collection.some THEN HttpResponse_Ok(collection.val)
         ELSE HttpResponse_NotFound
    ELSE HttpResponse_NotFound

\* new_app: the resource a GET path belongs to.  A path is its segments and
\* whether it ends with a slash; a path of no resource is answered by the
\* framework with 404 and no body.
Route(state, path) ==
    CASE path.segments = << "taxii2" >> /\ ~path.slash -> handle_discovery(state)
      [] Len(path.segments) = 1 /\ path.slash ->
            handle_api_root(state, path.segments[1])
      [] Len(path.segments) = 3 /\ path.segments[2] = "status" /\ path.slash ->
            handle_api_root_status(state, path.segments[1], path.segments[3])
      [] Len(path.segments) = 2 /\ path.segments[2] = "collections" /\ path.slash ->
            handle_api_root_collections(state, path.segments[1])
      [] Len(path.segments) = 3 /\ path.segments[2] = "collections" /\ path.slash ->
            handle_api_root_collection(state, path.segments[1], path.segments[3])
      [] OTHER -> HttpResponse_NotFound

\* CheckAcceptHeaderMiddleware::call: whether the request went to the inner
\* service, and the response.
CheckAcceptHeaderMiddleware_call(state, request) ==
    IF ~valid_accept_header(request.accept)
    THEN [forwarded |-> FALSE, response |-> HttpResponse_NotAcceptable]
    ELSE [forwarded |-> TRUE, response |-> Route(state, request.path)]

\* Nothing was done with the server yet.
NoOperation ==
    [op |-> "none", input |-> None, forwarded |-> FALSE, response |-> None,
     ret |-> None]

----------------------------------------------------------------------------
(* The events a call may be fed.                                           *)

Parsers == { "collections", "discovery", "subscription", "status" }

\* The element names tried: the names the parser knows, and one it does not.
Names(p) ==
    (CASE p = "collections" -> CollectionTagNames
       [] p = "discovery" -> DiscoveryTagNames
       [] p = "subscription" -> SubscriptionTagNames
       [] p = "status" -> StatusTagNames) \cup { "Bogus" }

\* The attribute lists tried on a start-element.
AttrPool(p) ==
    CASE p = "collections" ->
            { << >>,
              << Attr("collection_name", "a"), Attr("collection_type", "DATA_FEED"),
                 Attr("available", "TRUE") >>,
              << Attr("collection_name", "b") >>,
              << Attr("collection_type", "x") >>,
              << Attr("binding_id", "a") >>,
              << Attr("binding_id", "b") >>,
              << Attr("bogus", "a") >>,
              << Attr("collection_name", "a"), Attr("bogus", "a") >> }
      [] p = "discovery" ->
            { << >>,
              << Attr("service_type", "POLL"), Attr("service_version", "a"),
                 Attr("available", "true") >>,
              << Attr("service_type", "INBOX") >>,
              << Attr("service_type", "x") >>,
              << Attr("binding_id", "a") >>,
              << Attr("bogus", "a") >> }
      [] p = "subscription" ->
            { << >>,
              << Attr("message_id", "a"), Attr("in_response_to", "b"),
                 Attr("collection_name", "a") >>,
              << Attr("status", "PAUSED") >>,
              << Attr("status", "x") >>,
              << Attr("bogus", "a") >> }
      [] p = "status" ->
            { << >>,
              << Attr("message_id", "a"), Attr("in_response_to", "b"),
                 Attr("status_type", "BAD_MESSAGE") >>,
              << Attr("message_id", "b") >>,
              << Attr("bogus", "a") >> }

\* The text of Characters events, and of CData events.
Texts == { "a", "FULL" }

CDataTexts == { "c" }

\* The values of the available attribute tried next to those of AttrPool:
\* two spellings of true, false, and a value that is neither.
AvailableValues == { "true", "True", "false", "yes" }

\* The start-elements that carry the available attribute alone.
AvailableEvents(p) ==
    CASE p = "collections" ->
            { StartElement("Collection", << Attr("available", v) >>) :
                v \in AvailableValues }
      [] p = "discovery" ->
            { StartElement("Service_Instance", << Attr("available", v) >>) :
                v \in AvailableValues }
      [] OTHER -> { }

StartEvents(p) ==
    { StartElement(n, a) : n \in Names(p), a \in AttrPool(p) } \cup AvailableEvents(p)

EndEvents(p) == { EndElement(n) : n \in Names(p) }

CharactersEvents == { Characters(d) : d \in Texts }

CDataEvents == { CData(d) : d \in CDataTexts }

----------------------------------------------------------------------------
(* The call as a state machine.                                            *)

\* No composer call is under way.
ComposerIdle ==
    /\ args = None
    /\ rng = 1
    /\ writer = NewWriter
    /\ at = "idle"
    /\ composed = [kind |-> "idle", msg |-> "", value |-> None]

\* The locals of a parse call at its start.
ParserStart ==
    /\ tag_stack = << >>
    /\ last_value = ""
    /\ collection_set = << >>
    /\ cur_collection = Collection_new_empty
    /\ cur_service = None
    /\ services = << >>
    /\ cur_instance = ServiceInstance_new_empty
    /\ subscription_response = SubscriptionResponse_new_empty
    /\ cur_poll_instance = None
    /\ status_message = StatusMessage_new_empty
    /\ outcome = [kind |-> "running", msg |-> "", value |-> None]
    /\ tok = NoEvent
    /\ ntok = 0
    /\ pushed = 0
    /\ heard = << >>
    /\ reader = [open |-> 0, root |-> FALSE, finished |-> FALSE, text |-> None]

\* No pair of calls is under way.
PairIdle == calls = << >> /\ turn = [last |-> 0, switches |-> 0]

\* The server was just created and nothing has been done with it.
ServerStart ==
    /\ app_state = AppState_new_empty
    /\ last = NoOperation
    /\ observed = << >>

Init ==
    /\ parser \in Parsers
    /\ ParserStart
    /\ ComposerIdle
    /\ PairIdle
    /\ ServerStart

\* The call is inside `for e in xml_parser` and the reader has another event.
Running == outcome.kind = "running" /\ ~reader.finished /\ ntok < MaxTokens

\* The reader after it has yielded the event e; `text` keeps the content of
\* the last text event it yielded.
ReaderAfter(e) ==
    CASE e.kind = "StartElement" ->
            [reader EXCEPT !.open = @ + 1, !.root = TRUE]
      [] e.kind = "EndElement" ->
            [reader EXCEPT !.open = IF @ = 0 THEN 0 ELSE @ - 1]
      [] e.kind \in { "EndDocument", "Error" } -> [reader EXCEPT !.finished = TRUE]
      [] e.kind \in { "Characters", "CData" } -> [reader EXCEPT !.text = Some(e.data)]
      [] OTHER -> reader

Consume(e) ==
    /\ tok' = e
    /\ ntok' = ntok + 1
    /\ reader' = ReaderAfter(e)
    /\ heard' = CASE e.kind = "StartElement" -> << >>
                  [] e.kind \in { "Characters", "CData" } ->
                        IF Len(heard) < 2 THEN Append(heard, e)
                        ELSE << heard[2], e >>
                  [] OTHER -> heard
    /\ UNCHANGED composerVars
    /\ UNCHANGED pairVars
    /\ UNCHANGED serverVars

\* An error that leaves the loop and falls through to the final `Ok(..)`.
Fail_breaks(r) ==
    /\ outcome' = [kind |-> "ok", msg |-> "",
                   value |-> Some(CASE parser = "collections" -> collection_set
                                    [] parser = "discovery" -> services
                                    [] parser = "subscription" -> subscription_response
                                    [] parser = "status" -> status_message)]
    /\ UNCHANGED << parser, tag_stack, last_value, collection_set, cur_collection,
                    cur_service, services, cur_instance, subscription_response,
                    cur_poll_instance, status_message, pushed >>

\* `return Err(..)` (or a panic): the locals are dropped, only the error leaves.
Fail(r) ==
    /\ outcome' = [kind |-> IF r.panic THEN "panic" ELSE "err",
                   msg |-> r.err, value |-> None]
    /\ tag_stack' = << >>
    /\ last_value' = ""
    /\ collection_set' = << >>
    /\ cur_collection' = Collection_new_empty
    /\ cur_service' = None
    /\ services' = << >>
    /\ cur_instance' = ServiceInstance_new_empty
    /\ subscription_response' = SubscriptionResponse_new_empty
    /\ cur_poll_instance' = None
    /\ status_message' = StatusMessage_new_empty
    /\ UNCHANGED << parser, pushed >>

\* The loop is left when the reader has no further item; then the final
\* `Ok(..)`: the built value leaves.
ReturnOk(v) ==
    /\ outcome.kind = "running"
    /\ reader.finished
    /\ outcome' = [kind |-> "ok", msg |-> "", value |-> Some(v)]
    /\ UNCHANGED << parser, tag_stack, last_value, collection_set, cur_collection,
                    cur_service, services, cur_instance, subscription_response,
                    cur_poll_instance, status_message, tok, ntok, pushed, heard, reader >>
    /\ UNCHANGED composerVars
    /\ UNCHANGED pairVars
    /\ UNCHANGED serverVars

\* An event arm that changes nothing (`_ => {}`).
Skip ==
    UNCHANGED << parser, tag_stack, last_value, collection_set, cur_collection,
                 cur_service, services, cur_instance, subscription_response,
                 cur_poll_instance, status_message, outcome, pushed >>

\* The events that fall to `_ => {}` in every parser.
IgnoredEvents ==
    { Whitespace } \cup
    (IF reader.open = 0 /\ reader.root THEN { EndDocument } ELSE { })

SetColl(f) ==
    /\ tag_stack' = f.tag_stack
    /\ collection_set' = f.collection_set
    /\ cur_collection' = f.cur_collection
    /\ cur_service' = f.cur_service
    /\ last_value' = f.last_value
    /\ pushed' = Len(f.collection_set)
    /\ UNCHANGED << parser, services, cur_instance, subscription_response,
                    cur_poll_instance, status_message, outcome >>

SetDisc(f) ==
    /\ tag_stack' = f.tag_stack
    /\ services' = f.services
    /\ cur_instance' = f.cur_service
    /\ last_value' = f.last_value
    /\ pushed' = Len(f.services)
    /\ UNCHANGED << parser, collection_set, cur_collection, cur_service,
                    subscription_response, cur_poll_instance, status_message,
                    outcome >>

SetSub(f) ==
    /\ tag_stack' = f.tag_stack
    /\ subscription_response' = f.subscription_response
    /\ cur_poll_instance' = f.cur_poll_instance
    /\ last_value' = f.last_value
    /\ pushed' = Len(f.subscription_response.subscription.poll_instances)
    /\ UNCHANGED << parser, collection_set, cur_collection, cur_service, services,
                    cur_instance, status_message, outcome >>

SetStat(f) ==
    /\ tag_stack' = f.tag_stack
    /\ status_message' = f.status_message
    /\ last_value' = f.last_value
    /\ UNCHANGED << parser, collection_set, cur_collection, cur_service, services,
                    cur_instance, subscription_response, cur_poll_instance,
                    outcome, pushed >>

(* parse_collection_information_response *)

CollOnStartElement ==
    /\ parser = "collections" /\ Running
    /\ \E e \in StartEvents(parser) :
         /\ Consume(e)
         /\ LET r == CollStartElement(CollFrame, e.name, e.attributes) IN
            IF r.ok THEN SetColl(r.val) ELSE Fail(r)

CollOnEndElement ==
    /\ parser = "collections" /\ Running
    /\ \E e \in EndEvents(parser) :
         /\ Consume(e)
         /\ LET r == CollEndElement(CollFrame, e.name) IN
            IF r.ok THEN SetColl(r.val) ELSE Fail(r)

CollOnCharacters ==
    /\ parser = "collections" /\ Running
    /\ \E e \in CharactersEvents :
         Consume(e) /\ SetColl(CollCharacters(CollFrame, e.data))

CollOnOther ==
    /\ parser = "collections" /\ Running
    /\ \E e \in CDataEvents \cup IgnoredEvents : Consume(e) /\ Skip

CollOnError ==
    /\ parser = "collections" /\ Running
    /\ Consume(ReaderError)
    /\ LET r == CollReaderError(CollFrame) IN
       IF r.ok THEN SetColl(r.val) ELSE Fail(r)

CollReturn == parser = "collections" /\ ReturnOk(collection_set)

(* parse_discovery_response *)

DiscOnStartElement ==
    /\ parser = "discovery" /\ Running
    /\ \E e \in StartEvents(parser) :
         /\ Consume(e)
         /\ LET r == DiscStartElement(DiscFrame, e.name, e.attributes) IN
            IF r.ok THEN SetDisc(r.val) ELSE Fail(r)

DiscOnEndElement ==
    /\ parser = "discovery" /\ Running
    /\ \E e \in EndEvents(parser) :
         /\ Consume(e)
         /\ LET r == DiscEndElement(DiscFrame, e.name) IN
            IF r.ok THEN SetDisc(r.val) ELSE Fail(r)

DiscOnCData ==
    /\ parser = "discovery" /\ Running
    /\ \E e \in CDataEvents : Consume(e) /\ SetDisc(DiscCData(DiscFrame, e.data))

DiscOnCharacters ==
    /\ parser = "discovery" /\ Running
    /\ \E e \in CharactersEvents :
         Consume(e) /\ SetDisc(DiscCharacters(DiscFrame, e.data))

DiscOnOther ==
    /\ parser = "discovery" /\ Running
    /\ \E e \in IgnoredEvents : Consume(e) /\ Skip

DiscOnError ==
    /\ parser = "discovery" /\ Running
    /\ Consume(ReaderError)
    /\ LET r == DiscReaderError(DiscFrame) IN
       IF r.ok THEN SetDisc(r.val) ELSE Fail(r)

DiscReturn == parser = "discovery" /\ ReturnOk(services)

(* parse_subscription_management_response *)

SubOnStartElement ==
    /\ parser = "subscription" /\ Running
    /\ \E e \in StartEvents(parser) :
         /\ Consume(e)
         /\ LET r == SubStartElement(SubFrame, e.name, e.attributes) IN
            IF r.ok THEN SetSub(r.val) ELSE Fail(r)

SubOnEndElement ==
    /\ parser = "subscription" /\ Running
    /\ \E e \in EndEvents(parser) :
         /\ Consume(e)
         /\ LET r == SubEndElement(SubFrame, e.name) IN
            IF r.ok THEN SetSub(r.val) ELSE Fail(r)

SubOnCharacters ==
    /\ parser = "subscription" /\ Running
    /\ \E e \in CharactersEvents :
         Consume(e) /\ SetSub(SubCharacters(SubFrame, e.data))

SubOnOther ==
    /\ parser = "subscription" /\ Running
    /\ \E e \in CDataEvents \cup IgnoredEvents : Consume(e) /\ Skip

SubOnError ==
    /\ parser = "subscription" /\ Running
    /\ Consume(ReaderError)
    /\ LET r == SubReaderError(SubFrame) IN
       IF r.ok THEN SetSub(r.val) ELSE Fail(r)

SubReturn == parser = "subscription" /\ ReturnOk(subscription_response)

(* parse_status_message *)

StatOnStartElement ==
    /\ parser = "status" /\ Running
    /\ \E e \in StartEvents(parser) :
         /\ Consume(e)
         /\ LET r == StatStartElement(StatFrame, e.name, e.attributes) IN
            IF r.ok THEN SetStat(r.val) ELSE Fail(r)

StatOnEndElement ==
    /\ parser = "status" /\ Running
    /\ \E e \in EndEvents(parser) :
         /\ Consume(e)
         /\ LET r == StatEndElement(StatFrame, e.name) IN
            IF r.ok THEN SetStat(r.val) ELSE Fail(r)

StatOnCData ==
    /\ parser = "status" /\ Running
    /\ \E e \in CDataEvents : Consume(e) /\ SetStat(StatCData(StatFrame, e.data))

StatOnCharacters ==
    /\ parser = "status" /\ Running
    /\ \E e \in CharactersEvents :
         Consume(e) /\ SetStat(StatCharacters(StatFrame, e.data))

StatOnOther ==
    /\ parser = "status" /\ Running
    /\ \E e \in IgnoredEvents : Consume(e) /\ Skip

StatOnError ==
    /\ parser = "status" /\ Running
    /\ Consume(ReaderError)
    /\ LET r == StatReaderError(StatFrame) IN
       IF r.ok THEN SetStat(r.val) ELSE Fail(r)

StatReturn == parser = "status" /\ ReturnOk(status_message)

Next ==
    \/ CollOnStartElement \/ CollOnEndElement \/ CollOnCharacters
    \/ CollOnOther \/ CollOnError \/ CollReturn
    \/ DiscOnStartElement \/ DiscOnEndElement \/ DiscOnCData
    \/ DiscOnCharacters \/ DiscOnOther \/ DiscOnError \/ DiscReturn
    \/ SubOnStartElement \/ SubOnEndElement \/ SubOnCharacters
    \/ SubOnOther \/ SubOnError \/ SubReturn
    \/ StatOnStartElement \/ StatOnEndElement \/ StatOnCData
    \/ StatOnCharacters \/ StatOnOther \/ StatOnError \/ StatReturn

Spec == Init /\ [][Next]_vars

----------------------------------------------------------------------------
(* One call of create_subscribe_request_body, or of                        *)
(* create_poll_request_body, as a state machine.                           *)

Versions == { "V10", "V11", "V21" }

SubscribeActions == { "Subscribe", "Unsubscribe", "Pause", "Resume", "Status" }

\* The content-binding lists tried.
ContentBindingPool ==
    { << >>,
      << [binding_id |-> "b1", subtype_id |-> None] >>,
      << [binding_id |-> "b1", subtype_id |-> Some("s1")],
         [binding_id |-> "b2", subtype_id |-> None] >> }

\* The subscription parameters tried.
SubscriptionParametersPool ==
    { None } \cup
    { Some([reponse_type |-> t, content_bindings |-> c, query |-> q,
            query_format_id |-> f]) :
        t \in { "Full", "CountOnly" }, c \in ContentBindingPool,
        q \in { None, Some("q") }, f \in { None, Some("f") } }

\* The push parameters tried.
PushParametersPool ==
    { None,
      Some([protocol_binding |-> "p", address |-> "a", message_binding |-> "m"]) }

\* The argument lists tried for create_subscribe_request_body.
SubscribeArgsPool ==
    { Some([fn |-> "create_subscribe_request_body",
            ver |-> v, action |-> a, collection_name |-> "c",
            subscription_id |-> i, subscription_parameters |-> sp,
            push_parameters |-> pp]) :
        v \in Versions, a \in SubscribeActions, i \in { None, Some("id") },
        sp \in SubscriptionParametersPool, pp \in PushParametersPool }

\* The DateTime<Utc> values tried.
DateTimePool ==
    { [year |-> 2024, month |-> 1, day |-> 2, hour |-> 3, minute |-> 4, second |-> 5],
      [year |-> 1999, month |-> 12, day |-> 31, hour |-> 23, minute |-> 59,
       second |-> 59] }

\* The time ranges tried.
TimeRangePool ==
    { None } \cup
    { Some([exclusive_begin |-> b, inclusive_end |-> e]) :
        b \in { None } \cup { Some(t) : t \in DateTimePool },
        e \in { None } \cup { Some(t) : t \in DateTimePool } }

\* The poll parameters tried.
PollParametersPool ==
    { None,
      Some([allow_asynch |-> TRUE, response_type |-> "CountOnly",
            content_bindings |-> << [binding_id |-> "b1", subtype_id |-> None] >>,
            query |-> "q", query_format_id |-> "f"]) }

\* The argument lists tried for create_poll_request_body.
PollArgsPool ==
    { Some([fn |-> "create_poll_request_body",
            ver |-> v, collection_name |-> "c", time_range |-> t,
            subscription_id |-> i, poll_paramters |-> pp]) :
        v \in Versions, t \in TimeRangePool, i \in { "id", "" },
        pp \in PollParametersPool }

\* The argument lists tried for create_discovery_request_body and
\* create_collection_information_request_body.
SimpleArgsPool ==
    { Some([fn |-> f, ver |-> v]) :
        f \in { "create_discovery_request_body",
                "create_collection_information_request_body" },
        v \in Versions }

ArgsPool == SubscribeArgsPool \cup PollArgsPool \cup SimpleArgsPool

\* The function that was called.
Called(f) == args.val.fn = f

InitCompose ==
    /\ parser = "none"
    /\ ParserStart
    /\ args \in ArgsPool
    /\ rng \in { 1, 2 }
    /\ writer = NewWriter
    /\ at = "root"
    /\ composed = [kind |-> "running", msg |-> "", value |-> None]
    /\ PairIdle
    /\ ServerStart

\* A block has run: on Ok the next block is due, on Err (`?`, `return Err`)
\* or a panic the call is over and buf_writer is dropped with it.
Advance(r, next) ==
    /\ IF r.ok
       THEN /\ writer' = r.val
            /\ at' = next
            /\ composed' = composed
       ELSE /\ writer' = writer
            /\ at' = "done"
            /\ composed' = [kind |-> IF r.panic THEN "panic" ELSE "err",
                            msg |-> r.err, value |-> None]
    /\ UNCHANGED << args, rng >>
    /\ UNCHANGED parserVars
    /\ UNCHANGED pairVars
    /\ UNCHANGED serverVars

WriteRoot ==
    /\ Called("create_subscribe_request_body") /\ at = "root"
    /\ Advance(ComposeRoot(writer, args.val, rng), "id")

WriteSubscriptionId ==
    /\ Called("create_subscribe_request_body") /\ at = "id"
    /\ Advance(ComposeSubscriptionId(writer, args.val), "parameters")

WriteSubscriptionParameters ==
    /\ Called("create_subscribe_request_body") /\ at = "parameters"
    /\ Advance(ComposeSubscriptionParameters(writer, args.val), "push")

WritePushParameters ==
    /\ Called("create_subscribe_request_body") /\ at = "push"
    /\ Advance(ComposePushParameters(writer, args.val), "end")

WriteEnd ==
    /\ Called("create_subscribe_request_body") /\ at = "end"
    /\ Advance(ComposeEnd(writer, args.val), "return")

WritePollRoot ==
    /\ Called("create_poll_request_body") /\ at = "root"
    /\ Advance(PollRoot(writer, args.val, rng), "time_range")

WritePollTimeRange ==
    /\ Called("create_poll_request_body") /\ at = "time_range"
    /\ Advance(PollTimeRange(writer, args.val), "id")

WritePollSubscriptionId ==
    /\ Called("create_poll_request_body") /\ at = "id"
    /\ Advance(PollSubscriptionId(writer, args.val), "end")

WritePollEnd ==
    /\ Called("create_poll_request_body") /\ at = "end"
    /\ Advance(PollEnd(writer, args.val), "return")

WriteSimpleRoot ==
    /\ args.val.fn \in { "create_discovery_request_body",
                          "create_collection_information_request_body" }
    /\ at = "root"
    /\ Advance(SimpleRoot(writer, SimpleRequestTag(args.val.fn), args.val.ver, rng),
               "end")

WriteSimpleEnd ==
    /\ args.val.fn \in { "create_discovery_request_body",
                          "create_collection_information_request_body" }
    /\ at = "end"
    /\ Advance(SimpleEnd(writer), "return")

\* `return Ok(String::from_utf8(buf_writer).unwrap())`: what was written leaves.
ReturnBody ==
    /\ at = "return"
    /\ at' = "done"
    /\ composed' = [kind |-> "ok", msg |-> "", value |-> Some(writer.out)]
    /\ UNCHANGED << args, rng, writer >>
    /\ UNCHANGED parserVars
    /\ UNCHANGED pairVars
    /\ UNCHANGED serverVars

NextCompose ==
    \/ WriteRoot \/ WriteSubscriptionId \/ WriteSubscriptionParameters
    \/ WritePushParameters \/ WriteEnd
    \/ WritePollRoot \/ WritePollTimeRange \/ WritePollSubscriptionId
    \/ WritePollEnd
    \/ WriteSimpleRoot \/ WriteSimpleEnd
    \/ ReturnBody

SpecCompose == InitCompose /\ [][NextCompose]_vars

----------------------------------------------------------------------------
(* Two calls side by side.                                                 *)

\* The locals of a parse call at its start (`let mut ..` before the loop).
NewFrame(p) ==
    CASE p = "collections" ->
            [ tag_stack |-> << >>, collection_set |-> << >>,
              cur_collection |-> Collection_new_empty, cur_service |-> None,
              last_value |-> "" ]
      [] p = "discovery" ->
            [ tag_stack |-> << >>, services |-> << >>,
              cur_service |-> ServiceInstance_new_empty, last_value |-> "" ]
      [] p = "subscription" ->
            [ tag_stack |-> << >>,
              subscription_response |-> SubscriptionResponse_new_empty,
              cur_poll_instance |-> None, last_value |-> "" ]
      [] p = "status" ->
            [ tag_stack |-> << >>, status_message |-> StatusMessage_new_empty,
              last_value |-> "" ]

\* `match e`: the arm of parser p for the event e, on the locals f.
Handle(p, f, e) ==
    CASE p = "collections" ->
            (CASE e.kind = "StartElement" -> CollStartElement(f, e.name, e.attributes)
               [] e.kind = "EndElement" -> CollEndElement(f, e.name)
               [] e.kind = "Characters" -> Ok(CollCharacters(f, e.data))
               [] e.kind = "Error" -> CollReaderError(f)
               [] OTHER -> Ok(f))
      [] p = "discovery" ->
            (CASE e.kind = "StartElement" -> DiscStartElement(f, e.name, e.attributes)
               [] e.kind = "EndElement" -> DiscEndElement(f, e.name)
               [] e.kind = "CData" -> Ok(DiscCData(f, e.data))
               [] e.kind = "Characters" -> Ok(DiscCharacters(f, e.data))
               [] e.kind = "Error" -> DiscReaderError(f)
               [] OTHER -> Ok(f))
      [] p = "subscription" ->
            (CASE e.kind = "StartElement" -> SubStartElement(f, e.name, e.attributes)
               [] e.kind = "EndElement" -> SubEndElement(f, e.name)
               [] e.kind = "Characters" -> Ok(SubCharacters(f, e.data))
               [] e.kind = "Error" -> SubReaderError(f)
               [] OTHER -> Ok(f))
      [] p = "status" ->
            (CASE e.kind = "StartElement" -> StatStartElement(f, e.name, e.attributes)
               [] e.kind = "EndElement" -> StatEndElement(f, e.name)
               [] e.kind = "CData" -> Ok(StatCData(f, e.data))
               [] e.kind = "Characters" -> Ok(StatCharacters(f, e.data))
               [] e.kind = "Error" -> StatReaderError(f)
               [] OTHER -> Ok(f))

\* The value the final `Ok(..)` of parser p returns.
Built(p, f) ==
    CASE p = "collections" -> f.collection_set
      [] p = "discovery" -> f.services
      [] p = "subscription" -> f.subscription_response
      [] p = "status" -> f.status_message

\* A parse call at its start: doc is what the reader will yield.
ParseCall(p, doc) ==
    [ fn |-> "parse", parser |-> p, doc |-> doc, pos |-> 0, frame |-> NewFrame(p),
      outcome |-> [kind |-> "running", msg |-> "", value |-> None] ]

\* One turn of `for e in xml_parser`: on an error the locals are dropped.
ParseStep(c) ==
    LET r == Handle(c.parser, c.frame, c.doc[c.pos + 1]) IN
    IF r.ok THEN [c EXCEPT !.pos = @ + 1, !.frame = r.val]
    ELSE [c EXCEPT !.pos = @ + 1, !.frame = NewFrame(c.parser),
                   !.outcome = [kind |-> IF r.panic THEN "panic" ELSE "err",
                                msg |-> r.err, value |-> None]]

\* The reader has no further item: the final `Ok(..)`.
ParseReturn(c) ==
    [c EXCEPT !.outcome = [kind |-> "ok", msg |-> "",
                           value |-> Some(Built(c.parser, c.frame))]]

\* A composer call at its start.
ComposeCall(a, r) ==
    [ fn |-> "compose", args |-> a, rng |-> r, writer |-> NewWriter, at |-> "root",
      composed |-> [kind |-> "running", msg |-> "", value |-> None] ]

\* The block of the composer that is due, and the block after it.
Block(c) ==
    IF c.args.val.fn = "create_subscribe_request_body"
    THEN CASE c.at = "root" ->
                [r |-> ComposeRoot(c.writer, c.args.val, c.rng), next |-> "id"]
           [] c.at = "id" ->
                [r |-> ComposeSubscriptionId(c.writer, c.args.val), next |-> "parameters"]
           [] c.at = "parameters" ->
                [r |-> ComposeSubscriptionParameters(c.writer, c.args.val), next |-> "push"]
           [] c.at = "push" ->
                [r |-> ComposePushParameters(c.writer, c.args.val), next |-> "end"]
           [] c.at = "end" ->
                [r |-> ComposeEnd(c.writer, c.args.val), next |-> "return"]
    ELSE CASE c.at = "root" ->
                [r |-> PollRoot(c.writer, c.args.val, c.rng), next |-> "time_range"]
           [] c.at = "time_range" ->
                [r |-> PollTimeRange(c.writer, c.args.val), next |-> "id"]
           [] c.at = "id" ->
                [r |-> PollSubscriptionId(c.writer, c.args.val), next |-> "end"]
           [] c.at = "end" ->
                [r |-> PollEnd(c.writer, c.args.val), next |-> "return"]

\* One block of a composer call, or its final `return Ok(..)`.
ComposeStep(c) ==
    IF c.at = "return"
    THEN [c EXCEPT !.at = "done",
                   !.composed = [kind |-> "ok", msg |-> "",
                                 value |-> Some(c.writer.out)]]
    ELSE LET b == Block(c) IN
         IF b.r.ok THEN [c EXCEPT !.writer = b.r.val, !.at = b.next]
         ELSE [c EXCEPT !.at = "done",
                        !.composed = [kind |-> IF b.r.panic THEN "panic" ELSE "err",
                                      msg |-> b.r.err, value |-> None]]

\* The documents tried, as the event sequences the reader yields for them.
Documents(p) ==
    CASE p = "collections" ->
            { << StartElement("Collection_Information_Response", << >>),
                 StartElement("Collection",
                     << Attr("collection_name", "a"),
                        Attr("collection_type", "DATA_FEED"),
                        Attr("available", "TRUE") >>),
                 StartElement("Description", << >>), Characters("d1"),
                 EndElement("Description"),
                 StartElement("Polling_Service", << >>),
                 StartElement("Address", << >>), Characters("x1"),
                 EndElement("Address"),
                 EndElement("Polling_Service"),
                 EndElement("Collection"),
                 EndElement("Collection_Information_Response"), EndDocument >>,
              << StartElement("Collection_Information_Response", << >>),
                 Whitespace,
                 StartElement("Collection", << Attr("collection_name", "b") >>),
                 StartElement("Collection_Volume", << >>), Characters("7"),
                 EndElement("Collection_Volume"),
                 EndElement("Collection"),
                 EndElement("Collection_Information_Response"), EndDocument >>,
              << StartElement("Collection_Information_Response", << >>),
                 StartElement("Collection", << >>),
                 Characters("x2"),
                 EndElement("Address") >> }
      [] p = "discovery" ->
            { << StartElement("Discovery_Response", << >>),
                 StartElement("Service_Instance",
                     << Attr("service_type", "POLL"), Attr("service_version", "a"),
                        Attr("available", "true") >>),
                 StartElement("Address", << >>), Characters("x3"),
                 EndElement("Address"),
                 StartElement("Message", << >>), CData("m3"), EndElement("Message"),
                 EndElement("Service_Instance"),
                 EndElement("Discovery_Response"), EndDocument >>,
              << StartElement("Discovery_Response", << >>),
                 StartElement("Service_Instance", << Attr("service_type", "INBOX") >>),
                 StartElement("Protocol_Binding", << >>), Characters("p4"),
                 ReaderError >> }
      [] p = "subscription" ->
            { << StartElement("Subscription_Management_Response",
                     << Attr("message_id", "a"), Attr("in_response_to", "b"),
                        Attr("collection_name", "a") >>),
                 StartElement("Subscription", << Attr("status", "PAUSED") >>),
                 StartElement("Subscription_ID", << >>), Characters("s5"),
                 EndElement("Subscription_ID"),
                 EndElement("Subscription"),
                 EndElement("Subscription_Management_Response"), EndDocument >>,
              << StartElement("Subscription_Management_Response", << >>),
                 StartElement("Subscription", << >>),
                 StartElement("Poll_Instance", << >>),
                 StartElement("Address", << >>), Characters("x6"),
                 EndElement("Address"),
                 EndElement("Poll_Instance"),
                 StartElement("Bogus", << >>) >> }
      [] p = "status" ->
            { << StartElement("Status_Message",
                     << Attr("message_id", "a"), Attr("in_response_to", "b"),
                        Attr("status_type", "BAD_MESSAGE") >>),
                 StartElement("Message", << >>), Characters("m7"),
                 EndElement("Message"),
                 EndElement("Status_Message"), EndDocument >>,
              << StartElement("Status_Message", << Attr("message_id", "b") >>),
                 StartElement("Message", << >>), Characters("m8"), CData("m9"),
                 EndElement("Message"),
                 EndElement("Status_Message"), EndDocument >> }

\* The argument lists tried for two composer calls side by side: a SUBSCRIBE
\* request with both parameters, one with an id (an error), a PAUSE request,
\* a V21 request (a panic), and a poll request with a begin timestamp.
PairArgsPool ==
    { a \in SubscribeArgsPool \cup PollArgsPool :
        IF a.val.fn = "create_subscribe_request_body"
        THEN /\ a.val.subscription_parameters \in
                   { None,
                     Some([reponse_type |-> "CountOnly",
                           content_bindings |->
                               << [binding_id |-> "b1", subtype_id |-> None] >>,
                           query |-> Some("q"), query_format_id |-> Some("f")]) }
             /\ << a.val.ver, a.val.action, a.val.subscription_id.some,
                   a.val.subscription_parameters.some, a.val.push_parameters.some >>
                  \in { << "V11", "Subscribe", FALSE, TRUE, TRUE >>,
                        << "V11", "Subscribe", TRUE, FALSE, FALSE >>,
                        << "V10", "Pause", TRUE, FALSE, FALSE >>,
                        << "V21", "Subscribe", FALSE, FALSE, FALSE >> }
        ELSE /\ a.val.ver = "V11"
             /\ a.val.subscription_id = "id"
             /\ a.val.poll_paramters = None
             /\ a.val.time_range.some
             /\ a.val.time_range.val.exclusive_begin.some
             /\ a.val.time_range.val.exclusive_begin.val.year = 2024
             /\ ~a.val.time_range.val.inclusive_end.some }

InitTwo ==
    /\ parser = "none"
    /\ ParserStart
    /\ ComposerIdle
    /\ \/ \E p1, p2 \in Parsers :
           \E d1 \in Documents(p1), d2 \in Documents(p2) :
               calls = << ParseCall(p1, d1), ParseCall(p2, d2) >>
       \/ \E a1, a2 \in PairArgsPool :
           \E r1, r2 \in { 1, 2 } :
               calls = << ComposeCall(a1, r1), ComposeCall(a2, r2) >>
    /\ turn = [last |-> 0, switches |-> 0]
    /\ ServerStart

\* Call i has stepped.
TurnOf(i) ==
    /\ turn' = [last |-> i,
                switches |-> IF turn.last \in { 0, i } \/ turn.switches = 2
                             THEN turn.switches ELSE turn.switches + 1]
    /\ UNCHANGED parserVars
    /\ UNCHANGED composerVars
    /\ UNCHANGED serverVars

\* A parse step of call i that also leaves its text buffer in the other call.
CallParseEvent_sharedBuffer(i) ==
    /\ calls[i].fn = "parse"
    /\ calls[i].outcome.kind = "running"
    /\ calls[i].pos < Len(calls[i].doc)
    /\ LET c == ParseStep(calls[i]) IN
       calls' = [ j \in { 1, 2 } |->
                    IF j = i THEN c
                    ELSE [calls[j] EXCEPT !.frame.last_value = c.frame.last_value] ]
    /\ TurnOf(i)

\* A parse step of call i whose text buffer may keep what it held.
CallParseEvent_racy(i) ==
    /\ calls[i].fn = "parse"
    /\ calls[i].outcome.kind = "running"
    /\ calls[i].pos < Len(calls[i].doc)
    /\ LET c == ParseStep(calls[i]) IN
       \E v \in { c.frame.last_value, calls[i].frame.last_value } :
           calls' = [calls EXCEPT ![i] = [c EXCEPT !.frame.last_value = v]]
    /\ TurnOf(i)

\* Call i, a parse call, takes the next event of its document.
CallParseEvent(i) ==
    /\ calls[i].fn = "parse"
    /\ calls[i].outcome.kind = "running"
    /\ calls[i].pos < Len(calls[i].doc)
    /\ calls' = [calls EXCEPT ![i] = ParseStep(@)]
    /\ TurnOf(i)

\* Call i, a parse call, leaves the loop and returns what it built.
CallParseReturn(i) ==
    /\ calls[i].fn = "parse"
    /\ calls[i].outcome.kind = "running"
    /\ calls[i].pos = Len(calls[i].doc)
    /\ calls' = [calls EXCEPT ![i] = ParseReturn(@)]
    /\ TurnOf(i)

\* Call i, a composer call, runs its next block.
CallComposeBlock(i) ==
    /\ calls[i].fn = "compose"
    /\ calls[i].at # "done"
    /\ calls' = [calls EXCEPT ![i] = ComposeStep(@)]
    /\ TurnOf(i)

NextTwo ==
    \E i \in { 1, 2 } :
        \/ CallParseEvent(i)
        \/ CallParseReturn(i)
        \/ CallComposeBlock(i)

SpecTwo == InitTwo /\ [][NextTwo]_vars

----------------------------------------------------------------------------
(* The TAXII 2.1 server as a state machine.                                *)

\* The api root names tried.
ApiRootNames == { "api_root1", "taxii2" }

\* The api root configurations tried.
ConfigPool ==
    { APIRootConfig_new("api-root-title", Some("api-root-description"),
                        << "api-root-version" >>, 1000),
      APIRootConfig_new("other-title", None, << >>, 0) }

\* The api roots inserted: api_root1 with either configuration, taxii2 with
\* the second.
InsertPool ==
    { x \in ApiRootNames \X ConfigPool :
        x[1] = "taxii2" => x[2].title = "other-title" }

\* The statuses tried.
StatusPool ==
    { [Status_new("test-status-id") EXCEPT !.status = "SUCCESS"],
      [Status_new("test-status-id") EXCEPT !.status = "PENDING"],
      [Status_new("id2") EXCEPT !.status = "SUCCESS"] }

\* The Accept headers tried: none, the supported one, another version, no
\* version, another media type, a space after the semicolon, a longer
\* version, a list, a version that is no number, and a byte that is not ASCII.
AcceptPool ==
    { None,
      Some(MediaTypeChars \o VersionParamChars \o << "2", ".", "1" >>),
      Some(MediaTypeChars \o VersionParamChars \o << "1", ".", "1" >>),
      Some(MediaTypeChars),
      Some(<< "a", "p", "p", "l", "i", "c", "a", "t", "i", "o", "n", "/",
              "j", "s", "o", "n" >>),
      Some(MediaTypeChars \o << ";", " ", "v", "e", "r", "s", "i", "o", "n", "=",
                                "2", ".", "1" >>),
      Some(MediaTypeChars \o VersionParamChars \o << "2", ".", "1", "0" >>),
      Some(MediaTypeChars \o VersionParamChars \o << "2", ".", "1", ",", "*", "/", "*" >>),
      Some(MediaTypeChars \o VersionParamChars \o << "x", ".", "1" >>),
      Some(MediaTypeChars \o VersionParamChars \o << "2", ".", "1", "0xE9" >>) }

\* The GET paths tried.
PathPool ==
    { [segments |-> << "taxii2" >>, slash |-> FALSE],
      [segments |-> << "taxii2" >>, slash |-> TRUE],
      [segments |-> << "api_root1" >>, slash |-> TRUE],
      [segments |-> << "api_root1" >>, slash |-> FALSE],
      [segments |-> << "api_root1", "status", "test-status-id" >>, slash |-> TRUE],
      [segments |-> << "api_root1", "status", "test-status-id" >>, slash |-> FALSE],
      [segments |-> << "api_root1", "status", "id2" >>, slash |-> TRUE],
      [segments |-> << "taxii2", "status", "test-status-id" >>, slash |-> TRUE] }

\* The requests tried: every path with the supported Accept header, and
\* every Accept header with the discovery path and an api root path.
RequestPool ==
    { r \in [accept : AcceptPool, path : PathPool] :
        \/ valid_accept_header(r.accept)
        \/ r.path \in { [segments |-> << "taxii2" >>, slash |-> FALSE],
                        [segments |-> << "api_root1" >>, slash |-> TRUE] } }

InitServer ==
    /\ parser = "none"
    /\ ParserStart
    /\ ComposerIdle
    /\ PairIdle
    /\ ServerStart

\* A step of the server leaves the parser and composer calls alone.
ServerStep ==
    /\ UNCHANGED parserVars
    /\ UNCHANGED composerVars
    /\ UNCHANGED pairVars

\* `app_state.lock().unwrap().api_roots.insert(name, APIRoot::new(&config))`
InsertApiRoot ==
    \E x \in InsertPool :
        /\ app_state' = [app_state EXCEPT
                           !.api_roots = HashMap_insert(@, x[1], APIRoot_new(x[2]))]
        /\ last' = [NoOperation EXCEPT !.op = "insert",
                                       !.input = Some([api_root |-> x[1]])]
        /\ UNCHANGED observed
        /\ ServerStep

\* `app_state.lock().unwrap().api_roots.remove(&name)`
RemoveApiRoot ==
    \E name \in ApiRootNames :
        /\ app_state' = [app_state EXCEPT !.api_roots = HashMap_remove(@, name)]
        /\ last' = [NoOperation EXCEPT !.op = "remove",
                                       !.input = Some([api_root |-> name])]
        /\ UNCHANGED observed
        /\ ServerStep

\* `app_state.lock().unwrap().add_status(name, &status)`
AddStatus ==
    \E name \in ApiRootNames, status \in StatusPool :
        LET r == AppState_add_status(app_state, name, status) IN
        /\ app_state' = r.state
        /\ last' = [NoOperation EXCEPT
                      !.op = "add_status",
                      !.input = Some([api_root |-> name, status |-> status]),
                      !.ret = Some(r.ret)]
        /\ UNCHANGED observed
        /\ ServerStep

\* `app_state.lock().unwrap().get_status(name, status_id)`
GetStatus ==
    \E name \in ApiRootNames, status_id \in { "test-status-id", "id2" } :
        /\ last' = [NoOperation EXCEPT
                      !.op = "get_status",
                      !.input = Some([api_root |-> name, status_id |-> status_id]),
                      !.ret = Some(AppState_get_status(app_state, name, status_id))]
        /\ UNCHANGED << app_state, observed >>
        /\ ServerStep

\* `app.call(req).await`: a GET request through the middleware.
Request ==
    \E request \in RequestPool :
        LET path == request.path
            r == CheckAcceptHeaderMiddleware_call(app_state, request) IN
        /\ last' = [NoOperation EXCEPT
                      !.op = "request", !.input = Some(request),
                      !.forwarded = r.forwarded, !.response = Some(r.response)]
        /\ observed' =
             IF /\ r.forwarded
                /\ path = [segments |-> << "api_root1" >>, slash |-> TRUE]
                /\ Len(observed) < 3
                /\ (observed = << >> \/ observed[Len(observed)] # r.response.status)
             THEN Append(observed, r.response.status)
             ELSE observed
        /\ UNCHANGED app_state
        /\ ServerStep

NextServer ==
    \/ InsertApiRoot \/ RemoveApiRoot \/ AddStatus \/ GetStatus \/ Request

SpecServer == InitServer /\ [][NextServer]_vars

----------------------------------------------------------------------------
(* The collections of the TAXII 2.1 server as a state machine.             *)

\* The longest collection list an api root is given.
MaxCollections == 3

\* The collections tried: two with the same id, and one with another id.
CollectionPool ==
    { CollectionConfig_new("collection-id", "collection-title"),
      CollectionConfig_new("collection-id", "other-title"),
      CollectionConfig_new("test-collection-id", "test-collection-title") }

\* The collection ids asked for: the two stored, and one never stored.
CollectionIds == { "collection-id", "test-collection-id", "no-such-id" }

\* The add_collection calls tried: every collection on api_root1, the first
\* on taxii2.
AddCollectionPool ==
    { x \in ApiRootNames \X CollectionPool :
        x[1] = "taxii2" => x[2].title = "collection-title" }

\* The GET paths tried on the collections.
CollectionPathPool ==
    { [segments |-> << name, "collections" >>, slash |-> TRUE] : name \in ApiRootNames }
    \cup { [segments |-> << "api_root1", "collections", id >>, slash |-> TRUE] :
             id \in CollectionIds }
    \cup { [segments |-> << "api_root1", "collections" >>, slash |-> FALSE],
           [segments |-> << "taxii2", "collections", "collection-id" >>, slash |-> TRUE] }

\* The number of collections of an api root.
CollectionCount(state, name) ==
    IF name \in DOMAIN state.api_roots /\ state.api_roots[name].collections.collections.some
    THEN Len(state.api_roots[name].collections.collections.val)
    ELSE 0

\* `app_state.lock().unwrap().add_collection(name, &collection)`
AddCollection ==
    \E x \in AddCollectionPool :
        LET r == AppState_add_collection(app_state, x[1], x[2]) IN
        /\ CollectionCount(app_state, x[1]) < MaxCollections
        /\ app_state' = r.state
        /\ last' = [NoOperation EXCEPT
                      !.op = "add_collection",
                      !.input = Some([api_root |-> x[1], collection |-> x[2]]),
                      !.ret = Some(r.ret)]
        /\ UNCHANGED observed
        /\ ServerStep

\* `app_state.get_collections(name)` and `collections.get_collection(id)`
GetCollection ==
    \E name \in ApiRootNames, id \in CollectionIds :
        LET collections == AppState_get_collections(app_state, name) IN
        /\ last' = [NoOperation EXCEPT
                      !.op = "get_collection",
                      !.input = Some([api_root |-> name, collection_id |-> id]),
                      !.ret = Some(IF collections.some
                                   THEN Collections_get_collection(collections.val, id)
                                   ELSE None)]
        /\ UNCHANGED << app_state, observed >>
        /\ ServerStep

\* `app.call(req).await`: a GET request for the collections, with the
\* supported Accept header.
RequestCollections ==
    \E path \in CollectionPathPool :
        LET request == [accept |-> Some(MediaTypeChars \o VersionParamChars
                                          \o SUPPORTED_TAXII_VERSION),
                        path |-> path]
            r == CheckAcceptHeaderMiddleware_call(app_state, request) IN
        /\ last' = [NoOperation EXCEPT
                      !.op = "request", !.input = Some(request),
                      !.forwarded = r.forwarded, !.response = Some(r.response)]
        /\ UNCHANGED << app_state, observed >>
        /\ ServerStep

NextCollections ==
    \/ InsertApiRoot \/ RemoveApiRoot \/ AddCollection \/ GetCollection
    \/ RequestCollections

SpecCollections == InitServer /\ [][NextCollections]_vars

----------------------------------------------------------------------------
(* What the claims speak of.                                               *)

\* The closed tag set of each message shape.
ShapeTags(p) ==
    CASE p = "collections" ->
            { "Collection_Information_Response", "Collection", "Description",
              "Collection_Volume", "Content_Binding", "Message_Binding",
              "Address", "Protocol_Binding", "Polling_Service",
              "Subscription_Service", "Receiving_Inbox_Service" }
      [] p = "discovery" ->
            { "Discovery_Response", "Service_Instance", "Protocol_Binding",
              "Address", "Message_Binding", "Content_Binding", "Message" }
      [] p = "subscription" ->
            { "Subscription_Management_Response", "Subscription",
              "Subscription_ID", "Subscription_Parameters", "Response_Type",
              "Poll_Instance", "Protocol_Binding", "Address", "Message_Binding" }
      [] p = "status" -> { "Status_Message", "Message" }

\* The stack depths at which the shape's taxonomy allows the element.
DeclaredDepths(p, name) ==
    CASE p = "collections" ->
            (CASE name = "Collection_Information_Response" -> { 0 }
               [] name = "Collection" -> { 1 }
               [] name \in { "Description", "Collection_Volume", "Polling_Service",
                             "Subscription_Service", "Receiving_Inbox_Service" } -> { 2 }
               [] name = "Content_Binding" -> { 2, 3 }
               [] name \in { "Protocol_Binding", "Address", "Message_Binding" } -> { 3 }
               [] OTHER -> { })
      [] p = "discovery" ->
            (CASE name = "Discovery_Response" -> { 0 }
               [] name = "Service_Instance" -> { 1 }
               [] name \in { "Protocol_Binding", "Address", "Message_Binding",
                             "Content_Binding", "Message" } -> { 2 }
               [] OTHER -> { })
      [] p = "subscription" ->
            (CASE name = "Subscription_Management_Response" -> { 0 }
               [] name = "Subscription" -> { 1 }
               [] name \in { "Subscription_ID", "Subscription_Parameters",
                             "Poll_Instance" } -> { 2 }
               [] name \in { "Response_Type", "Protocol_Binding", "Address",
                             "Message_Binding" } -> { 3 }
               [] OTHER -> { })
      [] p = "status" ->
            (CASE name = "Status_Message" -> { 0 }
               [] name = "Message" -> { 1 }
               [] OTHER -> { })

\* The element a tag-stack entry stands for.
ElementName(tag) ==
    CASE tag = "CollectionInformationResponse" -> "Collection_Information_Response"
      [] tag = "Collection" -> "Collection"
      [] tag = "Description" -> "Description"
      [] tag = "CollectionVolume" -> "Collection_Volume"
      [] tag = "ContentBinding" -> "Content_Binding"
      [] tag = "MessageBinding" -> "Message_Binding"
      [] tag = "Address" -> "Address"
      [] tag = "ProtocolBinding" -> "Protocol_Binding"
      [] tag = "PollingService" -> "Polling_Service"
      [] tag = "SubscriptionService" -> "Subscription_Service"
      [] tag = "ReceivingInboxService" -> "Receiving_Inbox_Service"
      [] tag = "DiscoveryResponse" -> "Discovery_Response"
      [] tag = "ServiceInstance" -> "Service_Instance"
      [] tag = "Message" -> "Message"
      [] tag = "SubscriptionManagementResponse" -> "Subscription_Management_Response"
      [] tag = "Subscription" -> "Subscription"
      [] tag = "SubscriptionID" -> "Subscription_ID"
      [] tag = "SubscriptionParameters" -> "Subscription_Parameters"
      [] tag = "ResponseType" -> "Response_Type"
      [] tag = "PollInstance" -> "Poll_Instance"
      [] tag = "StatusMessage" -> "Status_Message"

\* This step consumes an event of the given kind (the event is tok').
Consumes(kind) ==
    outcome.kind = "running" /\ ntok' = ntok + 1 /\ tok'.kind = kind

\* The call has ended without a value: an error was returned.
ReturnedError(o) == o.kind = "err" /\ o.value = None

----------------------------------------------------------------------------
(* C1 *)

\* C1: in each of the four parsers a start-element whose recognized tag is not
\* allowed at the current stack depth makes the call return an error and no
\* result, and the stack grows only by the tag of a start-element whose depth
\* check has passed.
C1_DepthChecked ==
    [][ (Consumes("StartElement") /\ tok'.name \in ShapeTags(parser)) =>
          /\ (Len(tag_stack) \notin DeclaredDepths(parser, tok'.name)
                => ReturnedError(outcome'))
          /\ (Len(tag_stack') > Len(tag_stack)
                => /\ Len(tag_stack) \in DeclaredDepths(parser, tok'.name)
                   /\ tag_stack' = Append(tag_stack, tag_stack'[Len(tag_stack')])
                   /\ ElementName(tag_stack'[Len(tag_stack')]) = tok'.name) ]_vars

\* An Address start-element met at depth 2 of a collections document was rejected.
C1_Witness ==
    /\ parser = "collections"
    /\ tok = StartElement("Address", << >>)
    /\ ntok = 3
    /\ outcome = [kind |-> "err", msg |-> "tag at unexpected depth", value |-> None]

----------------------------------------------------------------------------
(* C2 *)

\* C2: in every parser an end-element processed while the tag stack is empty,
\* or whose name is not the name of the tag on top of the stack, makes the call
\* return an error.
C2_EndMismatchFails ==
    [][ (/\ Consumes("EndElement")
         /\ \/ tag_stack = << >>
            \/ ElementName(tag_stack[Len(tag_stack)]) # tok'.name)
          => ReturnedError(outcome') ]_vars

\* A discovery document closed an element under the name of another one.
C2_Witness ==
    /\ parser = "discovery"
    /\ tok = EndElement("Discovery_Response")
    /\ ntok = 3
    /\ outcome = [kind |-> "err", msg |-> "malformed XML response", value |-> None]

----------------------------------------------------------------------------
(* C3 *)

\* C3: in every parser a start-element whose local name is not in the shape's
\* closed tag set makes the call return an error, at any stack depth.
C3_UnknownTagFails ==
    (tok.kind = "StartElement" /\ tok.name \notin ShapeTags(parser))
        => ReturnedError(outcome)

\* An unknown element met two levels deep in a collections document.
C3_Witness ==
    /\ parser = "collections"
    /\ tok.kind = "StartElement" /\ tok.name = "Bogus"
    /\ ntok = 3
    /\ outcome = [kind |-> "err", msg |-> "could not parse tag", value |-> None]

----------------------------------------------------------------------------
(* C4 *)

\* The attribute names each element of a shape carries.
KnownAttrs(p, name) ==
    CASE p = "collections" /\ name = "Collection" ->
            { "collection_name", "collection_type", "available" }
      [] p = "discovery" /\ name = "Service_Instance" ->
            { "service_type", "service_version", "available" }
      [] p \in { "collections", "discovery" } /\ name = "Content_Binding" ->
            { "binding_id" }
      [] p = "subscription" /\ name = "Subscription_Management_Response" ->
            { "message_id", "in_response_to", "collection_name" }
      [] p = "subscription" /\ name = "Subscription" -> { "status" }
      [] p = "status" /\ name = "Status_Message" ->
            { "message_id", "in_response_to", "status_type" }
      [] OTHER -> { }

HasUnknownAttr(p, e) ==
    \E i \in 1..Len(e.attributes) : e.attributes[i].name \notin KnownAttrs(p, e.name)

\* The elements whose start-element arm walks the attribute list.
AttrReadingTags(p) ==
    CASE p = "collections" -> { "Collection", "Content_Binding" }
      [] p = "discovery" -> { "Service_Instance" }
      [] p = "subscription" -> { "Subscription_Management_Response", "Subscription" }
      [] p = "status" -> { "Status_Message" }

\* C4 as stated: in every parser and for every recognized tag, a start-element
\* carrying an attribute outside the tag's recognized attribute set makes the
\* parse fail.
C4_UnknownAttrFailsEverywhere ==
    (/\ tok.kind = "StartElement"
     /\ tok.name \in ShapeTags(parser)
     /\ HasUnknownAttr(parser, tok))
        => outcome.kind \notin { "running", "ok" }

\* C4 amended: an attribute outside the recognized set makes the parse fail on
\* the tags whose attributes the parser reads (Collection and Content_Binding in
\* the collections parser, Service_Instance in discovery,
\* Subscription_Management_Response and Subscription in subscription
\* management, Status_Message in status); on every other recognized tag the
\* attributes are not looked at, so a start-element at an allowed depth is
\* accepted whatever attributes it carries.
C4_UnknownAttrFailsWhereRead ==
    [][ (Consumes("StartElement") /\ tok'.name \in ShapeTags(parser)) =>
          /\ (tok'.name \in AttrReadingTags(parser) /\ HasUnknownAttr(parser, tok')
                => outcome'.kind \in { "err", "panic" })
          /\ ((/\ tok'.name \notin AttrReadingTags(parser)
               /\ Len(tag_stack) \in DeclaredDepths(parser, tok'.name))
                => outcome'.kind = "running") ]_vars

\* A Collection start-element with an unknown attribute was rejected for it.
C4_Witness ==
    /\ parser = "collections"
    /\ tok = StartElement("Collection", << Attr("bogus", "a") >>)
    /\ outcome = [kind |-> "err", msg |-> "unrecogized attribute", value |-> None]

----------------------------------------------------------------------------
(* C5 *)

\* C5: when the event stream ends while the tag stack is not empty (a
\* truncated document), the parse returns an error and not a result: a call
\* returns a result only with an empty stack, and the reader's Err item that
\* ends a truncated stream makes the call return an error.
C5_TruncatedFails ==
    /\ outcome.kind = "ok" => tag_stack = << >>
    /\ tok.kind = "Error" => ReturnedError(outcome)

\* The stream of a status document ended with the reader's Err item while
\* Status_Message was still open, and the call returned the error.
C5_Witness ==
    /\ parser = "status"
    /\ reader.open = 1 /\ reader.root /\ reader.finished
    /\ tok = ReaderError
    /\ outcome = [kind |-> "err", msg |-> "reader error", value |-> None]

----------------------------------------------------------------------------
(* C6 *)

\* The start-element carries an enum attribute whose value is no member.
HasBadEnum(p, e) ==
    \E i \in 1..Len(e.attributes) :
        \/ /\ p = "collections" /\ e.name = "Collection"
           /\ e.attributes[i].name = "collection_type"
           /\ e.attributes[i].value \notin { "DATA_FEED" }
        \/ /\ p = "discovery" /\ e.name = "Service_Instance"
           /\ e.attributes[i].name = "service_type"
           /\ e.attributes[i].value \notin
                 { "COLLECTION_MANAGEMENT", "DISCOVERY", "INBOX", "POLL" }
        \/ /\ p = "subscription" /\ e.name = "Subscription"
           /\ e.attributes[i].name = "status"
           /\ e.attributes[i].value \notin { "ACTIVE", "PAUSED", "UNSUBSCRIBED" }

\* C6: an attribute or text value that is no member of its enum
\* (collection_type, service_type, status, the text of Response_Type) makes the
\* parse call return an error value to its caller, in every parser that has
\* such a field.
C6_BadEnumReturnsErr ==
    [][ (\/ Consumes("StartElement") /\ HasBadEnum(parser, tok')
         \/ /\ Consumes("EndElement")
            /\ parser = "subscription" /\ tok'.name = "Response_Type"
            /\ last_value \notin { "FULL", "COUNT_ONLY" })
          => ReturnedError(outcome') ]_vars

----------------------------------------------------------------------------
(* C7 *)

\* The event cannot be accepted in the state it arrives in.
TriggersError(e) ==
    \/ e.kind = "Error"
    \/ e.kind = "StartElement" /\ e.name \notin ShapeTags(parser)
    \/ e.kind = "StartElement" /\ Len(tag_stack) \notin DeclaredDepths(parser, e.name)
    \/ e.kind = "EndElement" /\ tag_stack = << >>
    \/ /\ e.kind = "EndElement" /\ tag_stack # << >>
       /\ ElementName(tag_stack[Len(tag_stack)]) # e.name

\* C7: a parse call ends at the first event that triggers an error and hands
\* back only the error: whatever records were appended before, no value comes
\* back with it, and once the call has ended no further event is processed.
C7_NoPartialResult ==
    [][ /\ outcome.kind = "running"
        /\ (ntok' = ntok + 1 /\ TriggersError(tok')
              => outcome'.kind = "err" /\ outcome'.value = None)
        /\ (outcome'.kind \in { "err", "panic" } => outcome'.value = None)
        /\ (outcome'.kind = "ok" => ntok' = ntok) ]_vars

\* A collections call failed on an unknown element after a Collection had been
\* completed and appended.
C7_Witness ==
    /\ parser = "collections"
    /\ pushed >= 1
    /\ tok.kind = "StartElement" /\ tok.name = "Bogus"
    /\ outcome = [kind |-> "err", msg |-> "could not parse tag", value |-> None]

----------------------------------------------------------------------------
(* C8 *)

\* The elements whose end-element commits the text buffer to a field.
TextTags(p) ==
    CASE p = "collections" ->
            { "Description", "Collection_Volume", "Message_Binding", "Address",
              "Protocol_Binding" }
      [] p = "discovery" ->
            { "Protocol_Binding", "Address", "Message_Binding", "Content_Binding",
              "Message" }
      [] p = "subscription" ->
            { "Subscription_ID", "Protocol_Binding", "Address", "Message_Binding" }
      [] p = "status" -> { "Message" }

Last(q) == q[Len(q)]

\* The records a parser is building.
Records ==
    [ cur_collection |-> cur_collection, cur_service |-> cur_service,
      cur_instance |-> cur_instance,
      subscription_response |-> subscription_response,
      cur_poll_instance |-> cur_poll_instance, status_message |-> status_message ]

\* The field the end-element of a text-carrying element writes, read from the
\* records r.
Committed(r, name) ==
    CASE parser = "collections" ->
            (CASE name = "Description" -> r.cur_collection.description
               [] name = "Collection_Volume" -> r.cur_collection.collection_volume
               [] name = "Message_Binding" -> Last(r.cur_service.val.message_bindings)
               [] name = "Address" -> r.cur_service.val.address
               [] name = "Protocol_Binding" -> r.cur_service.val.protocol_binding)
      [] parser = "discovery" ->
            (CASE name = "Protocol_Binding" -> r.cur_instance.protocol_binding
               [] name = "Address" -> r.cur_instance.address
               [] name = "Message_Binding" -> Last(r.cur_instance.message_bindings)
               [] name = "Content_Binding" -> Last(r.cur_instance.content_bindings)
               [] name = "Message" -> r.cur_instance.message.val)
      [] parser = "subscription" ->
            (CASE name = "Subscription_ID" -> r.subscription_response.subscription.id
               [] name = "Message_Binding" ->
                    Last(r.cur_poll_instance.val.message_bindings)
               [] name = "Address" -> r.cur_poll_instance.val.address
               [] name = "Protocol_Binding" -> r.cur_poll_instance.val.protocol_binding)
      [] parser = "status" -> r.status_message.message.val

\* C8: text is last-value-wins.  Every text event (Characters or CDATA)
\* replaces the buffer by its own text, no other accepted event touches the
\* buffer, and the end-element of a text-carrying element commits the content
\* of the most recent text event seen before it, so that after two text runs in
\* one element the committed value is the second.
C8_LastValueWins ==
    [][ /\ (Consumes("Characters") \/ Consumes("CData") => last_value' = tok'.data)
        /\ ((/\ outcome.kind = "running" /\ outcome'.kind = "running"
             /\ tok'.kind \notin { "Characters", "CData" })
              => last_value' = last_value)
        /\ ((/\ Consumes("EndElement") /\ outcome'.kind = "running"
             /\ tok'.name \in TextTags(parser))
              => /\ Committed(Records', tok'.name) = last_value
                 /\ (heard' # << >>
                       => Committed(Records', tok'.name) = Last(heard').data)) ]_vars

\* A Description with the two text runs "a" and "FULL" was committed as "FULL".
C8_Witness ==
    /\ parser = "collections"
    /\ outcome.kind = "running"
    /\ tok = EndElement("Description")
    /\ heard = << Characters("a"), Characters("FULL") >>
    /\ cur_collection.description = "FULL"

----------------------------------------------------------------------------
(* C9 *)

\* C9: in all four parsers a CDATA event is handled like a Characters event,
\* it overwrites the text buffer, so that an element whose content is a CDATA
\* section is committed with that content.
C9_CDataOverwrites ==
    [][ /\ (Consumes("CData") => outcome'.kind = "running" /\ last_value' = tok'.data)
        /\ ((/\ Consumes("EndElement") /\ outcome'.kind = "running"
             /\ tok'.name \in TextTags(parser)
             /\ heard' # << >> /\ Last(heard').kind = "CData")
              => Committed(Records', tok'.name) = Last(heard').data) ]_vars

----------------------------------------------------------------------------
(* C10 *)

ServiceOnStack(stack) == \E i \in 1..Len(stack) : stack[i] \in CollServiceTags

ServiceElements == { "Polling_Service", "Subscription_Service", "Receiving_Inbox_Service" }

\* The service a start-element of the given name opens.
FreshService(name) ==
    [ collection_service_type |->
          CASE name = "Polling_Service" -> "PollingService"
            [] name = "Subscription_Service" -> "SubscriptionService"
            [] name = "Receiving_Inbox_Service" -> "ReceivingInboxService",
      protocol_binding |-> "", address |-> "",
      message_bindings |-> << >>, content_bindings |-> << >> ]

\* C10: in parse_collection_information_response the open-service slot is Some
\* exactly while a Polling_Service, Subscription_Service or
\* Receiving_Inbox_Service tag is on the tag stack: the start-element installs a
\* fresh service of the matching type, and the end-element appends the open
\* service to the current collection's service list and resets the slot to None.
C10_ServiceSlot ==
    [][ parser = "collections" =>
          /\ (cur_service.some <=> ServiceOnStack(tag_stack))
          /\ (cur_service'.some <=> ServiceOnStack(tag_stack'))
          /\ ((/\ Consumes("StartElement") /\ outcome'.kind = "running"
               /\ tok'.name \in ServiceElements)
                => cur_service' = Some(FreshService(tok'.name)))
          /\ ((/\ Consumes("EndElement") /\ outcome'.kind = "running"
               /\ tok'.name \in ServiceElements)
                => /\ cur_service.some
                   /\ cur_collection'.collection_services =
                          Append(cur_collection.collection_services, cur_service.val)
                   /\ cur_service' = None) ]_vars

\* A Polling_Service element with an Address was closed: the service sits in the
\* collection's list and the slot is empty again.
C10_Witness ==
    /\ parser = "collections"
    /\ outcome.kind = "running"
    /\ tok = EndElement("Polling_Service")
    /\ cur_service = None
    /\ Len(cur_collection.collection_services) = 1
    /\ cur_collection.collection_services[1].collection_service_type = "PollingService"

----------------------------------------------------------------------------
(* C11 *)

PollInstanceOnStack(stack) == \E i \in 1..Len(stack) : stack[i] = "PollInstance"

\* C11: in parse_subscription_management_response the Poll_Instance end-element
\* appends the open poll instance to the subscription's poll-instance list and
\* clears the open slot, so that the slot is None in every state where no
\* Poll_Instance tag is on the tag stack.
C11_PollSlotCleared ==
    [][ parser = "subscription" =>
          /\ ((/\ Consumes("EndElement") /\ outcome'.kind = "running"
               /\ tok'.name = "Poll_Instance")
                => /\ cur_poll_instance.some
                   /\ subscription_response'.subscription.poll_instances =
                          Append(subscription_response.subscription.poll_instances,
                                 cur_poll_instance.val)
                   /\ cur_poll_instance' = None)
          /\ (~PollInstanceOnStack(tag_stack') => cur_poll_instance' = None) ]_vars

----------------------------------------------------------------------------
(* C12 *)

BindingElements == { "Protocol_Binding", "Address", "Message_Binding" }

\* The element on top of the stack is the given one.
Inside(stack, tag) == stack # << >> /\ Last(stack) = tag

\* C12: in the subscription-management parser a Protocol_Binding, Address or
\* Message_Binding element that is not nested inside a Poll_Instance element
\* makes the call fail, whether or not a Poll_Instance element was opened and
\* closed earlier in the document: the element is never accepted and its text
\* dropped.
C12_BindingOutsidePollInstanceFails ==
    [][ (/\ parser = "subscription"
         /\ Consumes("EndElement")
         /\ tok'.name \in BindingElements
         /\ Len(tag_stack) = 4
         /\ ~Inside(SubSeq(tag_stack, 1, 3), "PollInstance"))
          => ReturnedError(outcome') ]_vars

----------------------------------------------------------------------------
(* C13 *)

\* C13: in the collection-information parser the end-element of a
\* Protocol_Binding, Address or Message_Binding that is processed while the
\* open-service slot is None (the element sits at depth 3 under a non-service
\* tag such as Description) makes the call fail.
C13_BindingWithoutServiceFails ==
    [][ (/\ parser = "collections"
         /\ Consumes("EndElement")
         /\ tok'.name \in BindingElements
         /\ Len(tag_stack) = 4
         /\ ElementName(Last(tag_stack)) = tok'.name
         /\ cur_service = None)
          => ReturnedError(outcome') ]_vars

\* An Address element under a non-service tag was closed and the call failed
\* on it.
C13_Witness ==
    /\ parser = "collections"
    /\ tok = EndElement("Address")
    /\ reader.open = 3
    /\ outcome = [kind |-> "err", msg |-> "unexpected Address tag", value |-> None]

----------------------------------------------------------------------------
(* C14 *)

\* The value of the attribute `name` in an attribute list, or `default`.
RECURSIVE AttrValue(_, _, _)
AttrValue(attributes, name, default) ==
    IF attributes = << >> THEN default
    ELSE IF Head(attributes).name = name THEN Head(attributes).value
    ELSE AttrValue(Tail(attributes), name, default)

HasAttr(attributes, name) == \E i \in 1..Len(attributes) : attributes[i].name = name

\* The service type a service_type attribute value stands for.
ServiceTypeOf(v) ==
    CASE v = "COLLECTION_MANAGEMENT" -> "CollectionManagement"
      [] v = "DISCOVERY" -> "Discovery"
      [] v = "INBOX" -> "Inbox"
      [] v = "POLL" -> "Poll"
      [] OTHER -> "Undefined"

\* The service instance a Service_Instance start-element with these attributes
\* describes, before any of its children.
InstanceOf(attributes) ==
    [ service_type |-> ServiceTypeOf(AttrValue(attributes, "service_type", "")),
      service_version |-> AttrValue(attributes, "service_version", ""),
      available |-> AttrValue(attributes, "available", "false")
                       \in { "true", "True", "TRUE" },
      protocol_binding |-> "",
      address |-> "",
      message_bindings |-> << >>,
      content_bindings |-> << >>,
      message |-> None ]

\* The text of the element that is being closed: its last text event.
OwnText(h) == Last(h).data

----------------------------------------------------------------------------
(* C15 *)

\* C15: in a Discovery_Response the content-binding list of a service instance
\* holds one entry per Content_Binding element of that Service_Instance, in
\* order, each entry being the binding_id the element carries.
C15_ContentBindingIds ==
    [][ (/\ parser = "discovery"
         /\ tok.kind = "StartElement" /\ tok.name = "Content_Binding"
         /\ HasAttr(tok.attributes, "binding_id")
         /\ Consumes("EndElement") /\ tok'.name = "Content_Binding"
         /\ outcome'.kind = "running")
          => cur_instance'.content_bindings =
                 Append(cur_instance.content_bindings,
                        AttrValue(tok.attributes, "binding_id", "")) ]_vars

----------------------------------------------------------------------------
(* C16 *)

\* C16: the result of parse_collection_information_response holds one
\* collection per Collection element, in document order; the service list of a
\* collection holds one entry per Polling_Service / Subscription_Service /
\* Receiving_Inbox_Service element of that Collection, in document order, with
\* the service type of the tag name and with address, protocol binding and
\* message bindings equal to the texts of the service's children.  Step by
\* step: a service start-element opens a fresh service of its type; the
\* end-element of a child with text writes that text to the child's field; the
\* service end-element appends the service to the collection's list; the
\* Collection end-element appends the collection to the result; a Collection
\* starts with an empty service list; the result is what the call returns.
C16_CollectionsInOrder ==
    [][ parser = "collections" =>
          /\ ((/\ Consumes("StartElement") /\ outcome'.kind = "running"
               /\ tok'.name = "Collection")
                => /\ cur_collection'.collection_services = << >>
                   /\ collection_set' = collection_set)
          /\ ((/\ Consumes("StartElement") /\ outcome'.kind = "running"
               /\ tok'.name \in ServiceElements)
                => cur_service' = Some(FreshService(tok'.name)))
          /\ ((/\ Consumes("EndElement") /\ outcome'.kind = "running"
               /\ tok'.name \in BindingElements
               /\ heard' # << >>)
                => /\ cur_service.some
                   /\ cur_service' = Some(
                        CASE tok'.name = "Protocol_Binding" ->
                                [cur_service.val EXCEPT !.protocol_binding =
                                                            OwnText(heard')]
                          [] tok'.name = "Address" ->
                                [cur_service.val EXCEPT !.address = OwnText(heard')]
                          [] tok'.name = "Message_Binding" ->
                                [cur_service.val EXCEPT !.message_bindings =
                                                            Append(@, OwnText(heard'))]))
          /\ ((/\ Consumes("EndElement") /\ outcome'.kind = "running"
               /\ tok'.name \in ServiceElements)
                => /\ cur_service.some
                   /\ cur_collection'.collection_services =
                          Append(cur_collection.collection_services, cur_service.val))
          /\ ((/\ Consumes("EndElement") /\ outcome'.kind = "running"
               /\ tok'.name = "Collection")
                => collection_set' = Append(collection_set, cur_collection))
          /\ ((/\ outcome.kind = "running" /\ outcome'.kind = "running"
               /\ ~(tok'.kind = "EndElement" /\ tok'.name = "Collection"))
                => collection_set' = collection_set)
          /\ ((/\ outcome.kind = "running" /\ outcome'.kind = "running"
               /\ ~(tok'.kind = "EndElement"
                      /\ tok'.name \in ServiceElements \cup { "Collection" }))
                => cur_collection'.collection_services =
                       cur_collection.collection_services)
          /\ (outcome.kind = "running" /\ outcome'.kind = "ok"
                => outcome'.value = Some(collection_set)) ]_vars

----------------------------------------------------------------------------
(* C17 *)

\* C17: in the collection-information parser the binding_id of a
\* Content_Binding start-element is appended to exactly one list: the open
\* service's content bindings when a service is open, otherwise the current
\* collection's; no other event adds to the collection's list, which starts
\* empty with each Collection, so that a collection with no Content_Binding
\* child of its own ends with an empty list even when its services have
\* content bindings.
C17_ContentBindingTarget ==
    [][ parser = "collections" =>
          /\ ((/\ Consumes("StartElement") /\ outcome'.kind = "running"
               /\ tok'.name = "Content_Binding"
               /\ HasAttr(tok'.attributes, "binding_id"))
                => LET id == AttrValue(tok'.attributes, "binding_id", "") IN
                   IF cur_service.some
                   THEN /\ cur_service'.some
                        /\ cur_service'.val.content_bindings =
                               Append(cur_service.val.content_bindings, id)
                        /\ cur_collection' = cur_collection
                   ELSE /\ cur_collection'.content_bindings =
                               Append(cur_collection.content_bindings, id)
                        /\ cur_service' = None)
          /\ ((/\ outcome.kind = "running" /\ outcome'.kind = "running"
               /\ ~(tok'.kind = "StartElement" /\ tok'.name = "Content_Binding")
               /\ ~(tok'.kind = "EndElement" /\ tok'.name = "Collection"))
                => cur_collection'.content_bindings = cur_collection.content_bindings)
          /\ ((/\ Consumes("StartElement") /\ outcome'.kind = "running"
               /\ tok'.name = "Collection")
                => cur_collection'.content_bindings = << >>)
          /\ ((/\ Consumes("EndElement") /\ outcome'.kind = "running"
               /\ tok'.name = "Collection")
                => Last(collection_set').content_bindings =
                       cur_collection.content_bindings) ]_vars

\* A Collection whose only Content_Binding sits inside its Polling_Service was
\* closed: the binding is in the service's list and the collection's is empty.
C17_Witness ==
    /\ parser = "collections"
    /\ outcome.kind = "running"
    /\ tok = EndElement("Collection")
    /\ Len(collection_set) = 1
    /\ collection_set[1].content_bindings = << >>
    /\ Len(collection_set[1].collection_services) = 1
    /\ collection_set[1].collection_services[1].content_bindings = << "a" >>

----------------------------------------------------------------------------
(* C18 *)

\* The subscription status a status attribute value stands for.
StatusOf(v) ==
    CASE v = "ACTIVE" -> "Active"
      [] v = "PAUSED" -> "Paused"
      [] v = "UNSUBSCRIBED" -> "Unsubscribed"

\* The response type a Response_Type text stands for.
ResponseTypeOf(v) ==
    CASE v = "FULL" -> "Full"
      [] v = "COUNT_ONLY" -> "CountOnly"

\* C18: the result of parse_subscription_management_response carries the
\* root's message_id, in_response_to and collection_name attributes, the
\* Subscription's status attribute parsed as ACTIVE / PAUSED / UNSUBSCRIBED, the
\* Subscription_ID text, the Response_Type text parsed as FULL / COUNT_ONLY,
\* and one poll instance per Poll_Instance element, in document order, with the
\* texts of its Protocol_Binding, Address and Message_Binding children.  Step
\* by step: each start-element writes the attributes it carries; each
\* end-element of a child with text writes that text to the child's field; the
\* Poll_Instance start-element opens an empty poll instance and its end-element
\* appends it to the list; the response is what the call returns.
C18_SubscriptionDecoded ==
    [][ parser = "subscription" =>
          LET sub == subscription_response.subscription
              sub2 == subscription_response'.subscription IN
          /\ ((/\ Consumes("StartElement") /\ outcome'.kind = "running"
               /\ tok'.name = "Subscription_Management_Response")
                => /\ subscription_response'.message_id =
                          AttrValue(tok'.attributes, "message_id",
                                    subscription_response.message_id)
                   /\ subscription_response'.in_response_to =
                          AttrValue(tok'.attributes, "in_response_to",
                                    subscription_response.in_response_to)
                   /\ sub2.collection_name =
                          AttrValue(tok'.attributes, "collection_name",
                                    sub.collection_name))
          /\ ((/\ Consumes("StartElement") /\ outcome'.kind = "running"
               /\ tok'.name = "Subscription"
               /\ HasAttr(tok'.attributes, "status"))
                => sub2.status = StatusOf(AttrValue(tok'.attributes, "status", "")))
          /\ ((/\ Consumes("EndElement") /\ tok'.name = "Subscription_ID"
               /\ Inside(tag_stack, "SubscriptionID")
               /\ heard' # << >>)
                => outcome'.kind = "running" /\ sub2.id = OwnText(heard'))
          /\ ((/\ Consumes("EndElement") /\ tok'.name = "Response_Type"
               /\ Inside(tag_stack, "ResponseType")
               /\ heard' # << >>
               /\ OwnText(heard') \in { "FULL", "COUNT_ONLY" })
                => /\ outcome'.kind = "running"
                   /\ sub2.response_type = ResponseTypeOf(OwnText(heard')))
          /\ ((/\ Consumes("StartElement") /\ outcome'.kind = "running"
               /\ tok'.name = "Poll_Instance")
                => cur_poll_instance' = Some([ protocol_binding |-> "", address |-> "",
                                               message_bindings |-> << >> ]))
          /\ ((/\ Consumes("EndElement") /\ tok'.name \in BindingElements
               /\ Len(tag_stack) = 4
               /\ ElementName(Last(tag_stack)) = tok'.name
               /\ tag_stack[3] = "PollInstance"
               /\ heard' # << >>)
                => /\ outcome'.kind = "running"
                   /\ cur_poll_instance.some
                   /\ cur_poll_instance' = Some(
                        CASE tok'.name = "Protocol_Binding" ->
                                [cur_poll_instance.val EXCEPT !.protocol_binding =
                                                                  OwnText(heard')]
                          [] tok'.name = "Address" ->
                                [cur_poll_instance.val EXCEPT !.address =
                                                                  OwnText(heard')]
                          [] tok'.name = "Message_Binding" ->
                                [cur_poll_instance.val EXCEPT !.message_bindings =
                                                      Append(@, OwnText(heard'))]))
          /\ ((/\ Consumes("EndElement") /\ outcome'.kind = "running"
               /\ tok'.name = "Poll_Instance")
                => /\ cur_poll_instance.some
                   /\ sub2.poll_instances =
                          Append(sub.poll_instances, cur_poll_instance.val))
          /\ ((/\ outcome.kind = "running" /\ outcome'.kind = "running"
               /\ ~(tok'.kind = "EndElement" /\ tok'.name = "Poll_Instance"))
                => sub2.poll_instances = sub.poll_instances)
          /\ (outcome.kind = "running" /\ outcome'.kind = "ok"
                => outcome'.value = Some(subscription_response)) ]_vars

----------------------------------------------------------------------------
(* C19 *)

\* C19: parse_status_message decodes the message_id, in_response_to and
\* status_type attributes of the Status_Message root verbatim into the result;
\* the message field is None when the document has no Message element and
\* Some(text) when it has one.  Step by step: the field is None before the
\* first event, only a Message end-element writes it, and it writes Some of
\* the element's text; the root's start-element writes the three attributes as
\* they are; the record is what the call returns.
C19_StatusDecoded ==
    [][ parser = "status" =>
          /\ (ntok = 0 => status_message.message = None)
          /\ ((/\ Consumes("StartElement") /\ outcome'.kind = "running"
               /\ tok'.name = "Status_Message")
                => /\ status_message'.message_id =
                          AttrValue(tok'.attributes, "message_id",
                                    status_message.message_id)
                   /\ status_message'.in_response_to =
                          AttrValue(tok'.attributes, "in_response_to",
                                    status_message.in_response_to)
                   /\ status_message'.status_type =
                          AttrValue(tok'.attributes, "status_type",
                                    status_message.status_type)
                   /\ status_message'.message = status_message.message)
          /\ ((/\ Consumes("EndElement") /\ tok'.name = "Message"
               /\ Inside(tag_stack, "Message"))
                => /\ outcome'.kind = "running"
                   /\ status_message'.message.some
                   /\ (heard' # << >>
                         => status_message'.message = Some(OwnText(heard')))
                   /\ status_message' =
                          [status_message EXCEPT !.message = status_message'.message])
          /\ ((/\ outcome.kind = "running" /\ outcome'.kind = "running"
               /\ ~(tok'.kind = "EndElement" /\ tok'.name = "Message")
               /\ ~(tok'.kind = "StartElement" /\ tok'.name = "Status_Message"))
                => status_message' = status_message)
          /\ (outcome.kind = "running" /\ outcome'.kind = "ok"
                => outcome'.value = Some(status_message)) ]_vars

\* A Status_Message with the three attributes and a Message child with the
\* text "a" was decoded and returned.
C19_Witness ==
    /\ parser = "status"
    /\ outcome.kind = "ok"
    /\ outcome.value.val = [ message_id |-> "a", in_response_to |-> "b",
                             status_type |-> "BAD_MESSAGE", message |-> Some("a") ]

----------------------------------------------------------------------------
(* C20 *)

\* The call of create_subscribe_request_body is over.
ComposeOver == Called("create_subscribe_request_body") /\ at = "done"

RootWritten ==
    /\ writer.buf # << >>
    /\ writer.buf[1].kind = "StartElement"
    /\ writer.buf[1].name = "taxii_11:Subscription_Management_Request"

\* C20 as stated, for every version: create_subscribe_request_body with action
\* SUBSCRIBE and a subscription id returns an error and no request text, the
\* root element being already written; the same call without a subscription
\* id succeeds.
C20_SubscribeWithIdFails ==
    (ComposeOver /\ args.val.action = "Subscribe")
      => IF args.val.subscription_id.some
         THEN composed.kind = "err" /\ composed.value = None /\ RootWritten
         ELSE composed.kind = "ok" /\ composed.value.some

\* C20 for the versions that have an XML binding: with V10 or V11,
\* create_subscribe_request_body with action SUBSCRIBE and a subscription id
\* returns an error and no request text, the root element being already
\* written, and the same call without a subscription id succeeds; with V21 the
\* call panics before anything is written, with or without an id.
C20_SubscribeWithIdFailsV1x ==
    (ComposeOver /\ args.val.action = "Subscribe")
      => IF args.val.ver = "V21"
         THEN composed.kind = "panic" /\ composed.value = None /\ writer.buf = << >>
         ELSE IF args.val.subscription_id.some
         THEN composed.kind = "err" /\ composed.value = None /\ RootWritten
         ELSE composed.kind = "ok" /\ composed.value.some

\* A V11 SUBSCRIBE call with a subscription id has returned its error after
\* the root element was written.
C20_Witness ==
    /\ ComposeOver
    /\ args.val.ver = "V11" /\ args.val.action = "Subscribe"
    /\ args.val.subscription_id = Some("id")
    /\ composed = [kind |-> "err",
                   msg |-> "unexpected subscription ID provided with subscribe action",
                   value |-> None]
    /\ Len(writer.buf) = 1

----------------------------------------------------------------------------
(* C21 *)

\* The call of create_subscribe_request_body has returned Ok.
SubscribeOk == ComposeOver /\ composed.kind = "ok"

\* The positions in the events written where an element of that name starts.
StartsOf(name) ==
    { i \in DOMAIN writer.buf :
        writer.buf[i].kind = "StartElement" /\ writer.buf[i].name = name }

Emitted(name) == StartsOf(name) # { }

\* C21: when create_subscribe_request_body returns Ok, a Subscription_ID
\* element was written if and only if the action is not SUBSCRIBE and a
\* subscription id was given; when written it is written once, right after
\* the start of the root element, and its only content is the id as text.
C21_SubscriptionIdChild ==
    SubscribeOk =>
      /\ Emitted("taxii_11:Subscription_ID")
            <=> (args.val.action # "Subscribe" /\ args.val.subscription_id.some)
      /\ Emitted("taxii_11:Subscription_ID") =>
            /\ StartsOf("taxii_11:Subscription_ID") = { 2 }
            /\ writer.buf[1].name = "taxii_11:Subscription_Management_Request"
            /\ writer.buf[2] = start_element("taxii_11:Subscription_ID")
            /\ writer.buf[3] = characters(args.val.subscription_id.val)
            /\ writer.buf[4] = [kind |-> "EndElement",
                                name |-> "taxii_11:Subscription_ID"]

\* A PAUSE request with a subscription id has been composed, and the id
\* element is in it.
C21_Witness ==
    /\ SubscribeOk
    /\ args.val.action = "Pause" /\ args.val.subscription_id = Some("id")
    /\ Emitted("taxii_11:Subscription_ID")

----------------------------------------------------------------------------
(* C22 *)

\* The number of elements open after the first n of the events written.
DepthAfter(n) ==
    Cardinality({ i \in 1..n : writer.buf[i].kind = "StartElement" })
      - Cardinality({ i \in 1..n : writer.buf[i].kind = "EndElement" })

\* The position where the element that starts at position i ends.
EndOf(i) ==
    CHOOSE j \in DOMAIN writer.buf :
        /\ j > i /\ DepthAfter(j) = DepthAfter(i) - 1
        /\ \A k \in (i + 1)..(j - 1) : DepthAfter(k) >= DepthAfter(i)

\* The element that starts at position i is a child of the root element.
ChildOfRoot(i) == DepthAfter(i) = 2

\* C22: when create_subscribe_request_body returns Ok, a
\* Subscription_Parameters element was written if and only if the action is
\* SUBSCRIBE and subscription parameters were given, and a Push_Parameters
\* element if and only if the action is SUBSCRIBE and push parameters were
\* given (so neither for UNSUBSCRIBE, PAUSE, RESUME and STATUS); each is
\* written at most once, as a child of the root, and when both are written
\* Subscription_Parameters ends before Push_Parameters starts.
C22_ParameterChildren ==
    SubscribeOk =>
      LET sp == StartsOf("taxii_11:Subscription_Parameters")
          pp == StartsOf("taxii_11:Push_Parameters") IN
      /\ sp # { } <=> (args.val.action = "Subscribe"
                         /\ args.val.subscription_parameters.some)
      /\ pp # { } <=> (args.val.action = "Subscribe"
                         /\ args.val.push_parameters.some)
      /\ Cardinality(sp) <= 1 /\ Cardinality(pp) <= 1
      /\ \A i \in sp \cup pp : ChildOfRoot(i)
      /\ \A i \in sp : \A j \in pp : EndOf(i) < j

\* A SUBSCRIBE request with both parameters has been composed; and so has a
\* request with another action that was given both.
C22_Witness ==
    /\ SubscribeOk
    /\ args.val.subscription_parameters.some /\ args.val.push_parameters.some
    /\ \/ /\ args.val.action = "Subscribe"
          /\ Emitted("taxii_11:Subscription_Parameters")
          /\ Emitted("taxii_11:Push_Parameters")
       \/ /\ args.val.action = "Unsubscribe"
          /\ Len(writer.buf) = 2

----------------------------------------------------------------------------
(* C23 *)

\* How many of the first n events written start, and end, an element.
StartsIn(n) == Cardinality({ i \in 1..n : writer.buf[i].kind = "StartElement" })

EndsIn(n) == Cardinality({ i \in 1..n : writer.buf[i].kind = "EndElement" })

\* C23: when a composer (create_subscribe_request_body with any action, id,
\* subscription parameters and push parameters, or create_poll_request_body)
\* returns Ok, the events it wrote are balanced: no prefix has more
\* end-elements than start-elements, the whole has as many of both, the
\* first event starts the root and no element but the root is at depth
\* zero (one root), and every start-element is closed by the end-element
\* of its own name.
C23_Balanced ==
    (at = "done" /\ composed.kind = "ok") =>
      LET n == Len(writer.buf) IN
      /\ n >= 2 /\ writer.buf[1].kind = "StartElement"
      /\ \A k \in 1..n : EndsIn(k) <= StartsIn(k)
      /\ \A k \in 1..(n - 1) : EndsIn(k) < StartsIn(k)
      /\ EndsIn(n) = StartsIn(n)
      /\ writer.open = << >>
      /\ \A i \in 1..n :
            writer.buf[i].kind = "StartElement" =>
              /\ \E j \in (i + 1)..n :
                    /\ writer.buf[j].kind = "EndElement"
                    /\ EndsIn(j) + StartsIn(i) = StartsIn(j) + EndsIn(i) + 1
              /\ writer.buf[EndOf(i)].kind = "EndElement"
              /\ writer.buf[EndOf(i)].name = writer.buf[i].name

\* A SUBSCRIBE request with two content bindings, one with a subtype, a
\* query and push parameters has been composed.
C23_Witness ==
    /\ SubscribeOk
    /\ args.val.action = "Subscribe"
    /\ args.val.subscription_parameters.some
    /\ Len(args.val.subscription_parameters.val.content_bindings) = 2
    /\ args.val.subscription_parameters.val.query.some
    /\ args.val.subscription_parameters.val.query_format_id.some
    /\ args.val.push_parameters.some
    /\ Len(writer.buf) = 27

----------------------------------------------------------------------------
(* C24 *)

\* The call of create_poll_request_body is over.
PollOver == Called("create_poll_request_body") /\ at = "done"

\* The three events of an element that holds only text.
TextElement(name, data) ==
    << start_element(name), characters(data),
       [kind |-> "EndElement", name |-> name] >>

\* What C24 says of the events written by a call that returned Ok: one
\* Subscription_ID element holding the given id; before it an
\* Exclusive_Begin_Timestamp element holding the RFC 3339 text of
\* exclusive_begin if and only if a time range with an exclusive_begin was
\* given; and between the root's start and end nothing else, whatever
\* inclusive_end and the poll parameters are.
PollChildren ==
    /\ composed.kind = "ok"
    /\ Len(writer.buf) >= 2
    /\ writer.buf[1].name = "taxii_11:Poll_Request"
    /\ writer.buf[Len(writer.buf)] =
          [kind |-> "EndElement", name |-> "taxii_11:Poll_Request"]
    /\ SubSeq(writer.buf, 2, Len(writer.buf) - 1) =
          (IF args.val.time_range.some /\ args.val.time_range.val.exclusive_begin.some
           THEN TextElement("taxii_11:Exclusive_Begin_Timestamp",
                    DateTime_to_rfc3339(args.val.time_range.val.exclusive_begin.val))
           ELSE << >>)
          \o TextElement("taxii_11:Subscription_ID", args.val.subscription_id)

\* C24 as stated, for every version: every call of create_poll_request_body
\* writes exactly one Subscription_ID child with the given id, preceded by an
\* Exclusive_Begin_Timestamp child if and only if a time range with an
\* exclusive_begin was given, and nothing for inclusive_end or the poll
\* parameters.
C24_PollChildren == PollOver => PollChildren

\* C24 for the versions that have an XML binding: with V10 or V11 every call
\* of create_poll_request_body returns Ok and has written exactly one
\* Subscription_ID child with the given id, preceded by an
\* Exclusive_Begin_Timestamp child if and only if a time range with an
\* exclusive_begin was given, and nothing for inclusive_end or the poll
\* parameters; with V21 the call panics before anything is written.
C24_PollChildrenV1x ==
    PollOver =>
      IF args.val.ver = "V21"
      THEN composed.kind = "panic" /\ writer.buf = << >>
      ELSE PollChildren

\* A V11 poll request has been composed from a time range with both ends and
\* from poll parameters: it holds the begin timestamp and the id, nothing else.
C24_Witness ==
    /\ PollOver /\ composed.kind = "ok"
    /\ args.val.ver = "V11"
    /\ args.val.time_range.some
    /\ args.val.time_range.val.exclusive_begin.some
    /\ args.val.time_range.val.inclusive_end.some
    /\ args.val.poll_paramters.some
    /\ Len(writer.buf) = 8
    /\ writer.buf[3] \in { characters("2024-01-02T03:04:05+00:00"),
                           characters("1999-12-31T23:59:59+00:00") }
    /\ writer.buf[6] = characters(args.val.subscription_id)

----------------------------------------------------------------------------
(* C25 *)

\* The namespace URI of the TAXII version.
UriOf(ver) ==
    IF ver = "V10" THEN "http://taxii.mitre.org/messages/taxii_xml_binding-1"
    ELSE "http://taxii.mitre.org/messages/taxii_xml_binding-1.1"

\* The action as the request spells it.
ActionText(action) ==
    CASE action = "Subscribe" -> "SUBSCRIBE"
      [] action = "Unsubscribe" -> "UNSUBSCRIBE"
      [] action = "Pause" -> "PAUSE"
      [] action = "Resume" -> "RESUME"
      [] action = "Status" -> "STATUS"

\* The text of the root's start tag up to its last attribute, the message
\* id being the one the root element was given.
RootTagText ==
    "<taxii_11:Subscription_Management_Request xmlns:taxii_11=\""
      \o UriOf(args.val.ver)
      \o "\" action=\"" \o ActionText(args.val.action)
      \o "\" message_id=\"" \o writer.buf[1].attributes[2].value
      \o "\" collection_name=\"" \o args.val.collection_name \o "\""

\* C25: once create_subscribe_request_body has written its root element, the
\* first event written is the start of Subscription_Management_Request, it
\* declares the prefix taxii_11 as the version's URI, and its attributes
\* are action, message_id, collection_name in this order; the text written
\* for it is the start tag with the declaration first and the three
\* attributes after it; and when the call returns Ok without having written
\* a child, the text returned is that start tag closed by " />", one
\* self-closed element that ends with the collection_name attribute.
C25_RootElement ==
    (Called("create_subscribe_request_body") /\ writer.buf # << >>) =>
      /\ writer.buf[1].kind = "StartElement"
      /\ writer.buf[1].name = "taxii_11:Subscription_Management_Request"
      /\ writer.buf[1].ns = Some([prefix |-> "taxii_11", uri |-> UriOf(args.val.ver)])
      /\ Len(writer.buf[1].attributes) = 3
      /\ writer.buf[1].attributes[1] = Attr("action", ActionText(args.val.action))
      /\ writer.buf[1].attributes[2].name = "message_id"
      /\ writer.buf[1].attributes[3] = Attr("collection_name", args.val.collection_name)
      /\ Len(writer.buf) = 1 => writer.out = RootTagText
      /\ (SubscribeOk /\ Len(writer.buf) = 2) =>
            composed.value = Some(RootTagText \o " />")

\* The V11 SUBSCRIBE request without id and parameters has been composed with
\* the first message id: the text is one self-closed element.
C25_Witness ==
    /\ SubscribeOk
    /\ args.val.ver = "V11" /\ args.val.action = "Subscribe"
    /\ args.val.subscription_id = None
    /\ args.val.subscription_parameters = None /\ args.val.push_parameters = None
    /\ composed.value.val =
         "<taxii_11:Subscription_Management_Request xmlns:taxii_11=\"http://taxii.mitre.org/messages/taxii_xml_binding-1.1\" action=\"SUBSCRIBE\" message_id=\"00000000-0000-4000-8000-000000000001\" collection_name=\"c\" />"

----------------------------------------------------------------------------
(* C26 *)

\* The call has returned.
Over(c) ==
    IF c.fn = "parse" THEN c.outcome.kind # "running" ELSE c.at = "done"

\* Both calls run the same parser on the same document.
SameParse ==
    /\ calls[1].fn = "parse" /\ calls[2].fn = "parse"
    /\ calls[1].parser = calls[2].parser
    /\ calls[1].doc = calls[2].doc

\* Both calls compose from the same arguments, the random source yielding
\* the same message id.
SameCompose ==
    /\ calls[1].fn = "compose" /\ calls[2].fn = "compose"
    /\ calls[1].args = calls[2].args
    /\ calls[1].rng = calls[2].rng

----------------------------------------------------------------------------
(* C27 *)

\* The call c run alone for n more events, or up to its error.
RECURSIVE AloneFor(_, _)
AloneFor(c, n) ==
    IF n = 0 \/ c.outcome.kind # "running" THEN c
    ELSE AloneFor(ParseStep(c), n - 1)

\* The call of parser p on the document doc run alone to its end.
Alone(p, doc) ==
    LET c == AloneFor(ParseCall(p, doc), Len(doc)) IN
    IF c.outcome.kind = "running" THEN ParseReturn(c) ELSE c

----------------------------------------------------------------------------
(* C28 *)

\* The last operation was a GET request.
Requested == last.op = "request"

\* The Accept header value application/taxii+json;version=2.1
SupportedAccept ==
    << "a", "p", "p", "l", "i", "c", "a", "t", "i", "o", "n", "/",
       "t", "a", "x", "i", "i", "+", "j", "s", "o", "n",
       ";", "v", "e", "r", "s", "i", "o", "n", "=", "2", ".", "1" >>

\* C28: a request went to the inner handler if and only if its Accept header
\* is exactly application/taxii+json;version=2.1; every other request (no
\* Accept header, another media type, another version, no version, anything
\* before or after the value) was answered 406 with no body.
C28_AcceptChecked ==
    Requested =>
      /\ last.forwarded <=> last.input.val.accept = Some(SupportedAccept)
      /\ ~last.forwarded =>
            last.response = Some([status |-> 406, content_type |-> None,
                                   body |-> None])

\* A request for an api root that exists came with the media type but no
\* version: it was answered 406 and did not reach the handler.
C28_Witness ==
    /\ Requested
    /\ last.input.val.accept = Some(MediaTypeChars)
    /\ last.input.val.path = [segments |-> << "api_root1" >>, slash |-> TRUE]
    /\ "api_root1" \in DOMAIN app_state.api_roots
    /\ ~last.forwarded
    /\ last.response.val.status = 406

----------------------------------------------------------------------------
(* C29 *)

\* The last operation was a GET request with the supported Accept header for
\* the path /name/.
RequestedRoot(name) ==
    /\ Requested
    /\ last.input.val.accept = Some(SupportedAccept)
    /\ last.input.val.path = [segments |-> << name >>, slash |-> TRUE]

\* C29: a GET /{api_root}/ with the supported Accept header is answered 200
\* with the configuration of that api root as its body if the api root is in
\* the shared state when the request is served, and 404 with no body if it
\* is not; so the answer changes with every insertion and removal.
C29_ApiRootAnswer ==
    \A name \in ApiRootNames :
      RequestedRoot(name) =>
        IF name \in DOMAIN app_state.api_roots
        THEN last.response =
               Some([status |-> 200,
                     content_type |-> Some("application/taxii+json;version=2.1"),
                     body |-> Some([json |-> app_state.api_roots[name].config])])
        ELSE last.response =
               Some([status |-> 404, content_type |-> None, body |-> None])

\* GET /api_root1/ was answered 404, then, after an insertion, 200, then,
\* after a removal, 404 again.
C29_Witness ==
    /\ observed = << 404, 200, 404 >>
    /\ RequestedRoot("api_root1")
    /\ "api_root1" \notin DOMAIN app_state.api_roots

----------------------------------------------------------------------------
(* C30 *)

\* A status is stored under that id in that api root.
Stored(state, name, id) ==
    /\ name \in DOMAIN state.api_roots
    /\ id \in DOMAIN state.api_roots[name].statii

\* C30: add_status on an api root that exists returns Ok and leaves the
\* given status stored under its id, in place of what was stored under that
\* id, with every other status, every configuration and every other api root
\* as before; add_status on an api root that does not exist returns an error
\* and leaves the state as it was; get_status returns the stored status, or
\* None when none is stored under the id (as before the first add); and
\* GET /{api_root}/status/{id}/ is answered 200 with the stored status, or
\* 404 with no body when none is stored.
C30_AddStatus ==
    [][ /\ last'.op = "add_status" =>
             LET name == last'.input.val.api_root
                 status == last'.input.val.status IN
             IF name \in DOMAIN app_state.api_roots
             THEN /\ last'.ret = Some(Ok("()"))
                  /\ DOMAIN app_state'.api_roots = DOMAIN app_state.api_roots
                  /\ app_state'.api_roots[name].statii[status.id] = status
                  /\ DOMAIN app_state'.api_roots[name].statii
                       = DOMAIN app_state.api_roots[name].statii \cup { status.id }
                  /\ \A id \in DOMAIN app_state.api_roots[name].statii \ { status.id } :
                        app_state'.api_roots[name].statii[id]
                          = app_state.api_roots[name].statii[id]
                  /\ app_state'.api_roots[name].config = app_state.api_roots[name].config
                  /\ \A other \in DOMAIN app_state.api_roots \ { name } :
                        app_state'.api_roots[other] = app_state.api_roots[other]
             ELSE /\ ~last'.ret.val.ok
                  /\ app_state' = app_state
        /\ last'.op = "get_status" =>
             LET name == last'.input.val.api_root
                 id == last'.input.val.status_id IN
             last'.ret.val = IF Stored(app_state', name, id)
                             THEN Some(app_state'.api_roots[name].statii[id])
                             ELSE None
        /\ (/\ last'.op = "request" /\ last'.forwarded
            /\ Len(last'.input.val.path.segments) = 3
            /\ last'.input.val.path.segments[2] = "status"
            /\ last'.input.val.path.slash) =>
             LET name == last'.input.val.path.segments[1]
                 id == last'.input.val.path.segments[3] IN
             IF Stored(app_state', name, id)
             THEN /\ last'.response.val.status = 200
                  /\ last'.response.val.body
                       = Some([json |-> app_state'.api_roots[name].statii[id]])
             ELSE last'.response.val
                    = [status |-> 404, content_type |-> None, body |-> None]
      ]_vars

\* After add_status on api_root1, GET /api_root1/status/test-status-id/ was
\* answered with the stored status, a second status being stored next to it.
C30_Witness ==
    /\ Requested /\ last.forwarded
    /\ last.input.val.path =
         [segments |-> << "api_root1", "status", "test-status-id" >>, slash |-> TRUE]
    /\ last.response.val.status = 200
    /\ last.response.val.body.val.json.id = "test-status-id"
    /\ last.response.val.body.val.json.status = "PENDING"
    /\ Stored(app_state, "api_root1", "id2")

----------------------------------------------------------------------------
(* C31 *)

\* The collection list of an api root of the state: None, or Some(list).
ListOf(state, name) == state.api_roots[name].collections.collections

\* The first collection of the list with the id, or None.
FirstWithId(list, id) ==
    IF list.some /\ \E pos \in DOMAIN list.val : list.val[pos].id = id
    THEN Some(list.val[CHOOSE pos \in DOMAIN list.val :
                         /\ list.val[pos].id = id
                         /\ \A q \in 1..(pos - 1) : list.val[q].id # id])
    ELSE None

\* The last operation was a forwarded GET for a path of these segments
\* ending with a slash.
RequestedPath(op, n, second) ==
    /\ op.op = "request" /\ op.forwarded
    /\ Len(op.input.val.path.segments) = n
    /\ op.input.val.path.segments[2] = second
    /\ op.input.val.path.slash

\* C31: a new api root has no collection list (None), and a list appears
\* only by add_collection; add_collection on an api root that exists returns
\* Ok and appends the collection at the end of the list (a list of that one
\* collection when there was none), everything else unchanged;
\* add_collection on an api root that does not exist returns an error and
\* changes nothing; get_collection returns the first collection of the list
\* with the id, or None; GET /{api_root}/collections/{id}/ is answered 200
\* with that collection or 404 with no body, and GET /{api_root}/collections/
\* 200 with the list or 404 when the api root does not exist.
C31_Collections ==
    [][ /\ last'.op = "insert" =>
             ListOf(app_state', last'.input.val.api_root) = None
        /\ \A name \in DOMAIN app_state.api_roots \cap DOMAIN app_state'.api_roots :
             (ListOf(app_state, name) = None /\ ListOf(app_state', name) # None)
               => (last'.op = "add_collection" /\ last'.input.val.api_root = name)
        /\ last'.op = "add_collection" =>
             LET name == last'.input.val.api_root
                 collection == last'.input.val.collection IN
             IF name \in DOMAIN app_state.api_roots
             THEN /\ last'.ret = Some(Ok("()"))
                  /\ DOMAIN app_state'.api_roots = DOMAIN app_state.api_roots
                  /\ ListOf(app_state', name)
                       = Some(IF ListOf(app_state, name) = None
                              THEN << collection >>
                              ELSE ListOf(app_state, name).val \o << collection >>)
                  /\ app_state'.api_roots[name].config = app_state.api_roots[name].config
                  /\ app_state'.api_roots[name].statii = app_state.api_roots[name].statii
                  /\ \A other \in DOMAIN app_state.api_roots \ { name } :
                        app_state'.api_roots[other] = app_state.api_roots[other]
             ELSE /\ ~last'.ret.val.ok
                  /\ app_state' = app_state
        /\ last'.op = "get_collection" =>
             LET name == last'.input.val.api_root
                 id == last'.input.val.collection_id IN
             last'.ret.val = IF name \in DOMAIN app_state'.api_roots
                             THEN FirstWithId(ListOf(app_state', name), id)
                             ELSE None
        /\ RequestedPath(last', 3, "collections") =>
             LET name == last'.input.val.path.segments[1]
                 id == last'.input.val.path.segments[3]
                 found == IF name \in DOMAIN app_state'.api_roots
                          THEN FirstWithId(ListOf(app_state', name), id)
                          ELSE None IN
             IF found.some
             THEN /\ last'.response.val.status = 200
                  /\ last'.response.val.body = Some([json |-> found.val])
             ELSE last'.response.val
                    = [status |-> 404, content_type |-> None, body |-> None]
        /\ RequestedPath(last', 2, "collections") =>
             LET name == last'.input.val.path.segments[1] IN
             IF name \in DOMAIN app_state'.api_roots
             THEN /\ last'.response.val.status = 200
                  /\ last'.response.val.body
                       = Some([json |-> [collections |-> ListOf(app_state', name)]])
             ELSE last'.response.val
                    = [status |-> 404, content_type |-> None, body |-> None]
      ]_vars

\* api_root1 holds three collections in the order they were added, the
\* second and the third with the same id, and GET for that id was answered
\* with the second.
C31_Witness ==
    /\ "api_root1" \in DOMAIN app_state.api_roots
    /\ ListOf(app_state, "api_root1").some
    /\ LET list == ListOf(app_state, "api_root1").val IN
       /\ Len(list) = 3
       /\ list[1].id = "test-collection-id"
       /\ list[2].title = "other-title"
       /\ list[3].title = "collection-title"
    /\ RequestedPath(last, 3, "collections")
    /\ last.input.val.path.segments = << "api_root1", "collections", "collection-id" >>
    /\ last.response.val.status = 200
    /\ last.response.val.body.val.json.title = "other-title"

----------------------------------------------------------------------------
(* C32 *)

\* parse and to_str of the taxonomy of a parser.
TagParse(p, name) ==
    IF p = "collections" THEN CollectionTags_parse(name)
    ELSE SubscriptionManagementResponseTag_parse(name)

TagToStr(p, tag) ==
    IF p = "collections" THEN CollectionTags_to_str(tag)
    ELSE SubscriptionManagementResponseTag_to_str(tag)

\* C32: in the collections and the subscription parser, every tag t on the
\* tag stack is the tag its canonical name parses to, parse(to_str(t)) = t,
\* and the tag a start-element's name n was just parsed to has that name as
\* its canonical name, to_str(parse(n)) = n.
C32_TagBijection ==
    parser \in { "collections", "subscription" } =>
      /\ \A i \in DOMAIN tag_stack :
            TagParse(parser, TagToStr(parser, tag_stack[i])) = Ok(tag_stack[i])
      /\ (tok.kind = "StartElement" /\ outcome.kind = "running" /\ tag_stack # << >>) =>
            TagToStr(parser, tag_stack[Len(tag_stack)]) = tok.name

----------------------------------------------------------------------------
(* C33 *)

\* The longest tag stack of each parser.
DeepestStack(p) ==
    CASE p = "status" -> 2
      [] p = "discovery" -> 3
      [] p \in { "collections", "subscription" } -> 4
      [] OTHER -> 0

\* The root tag of each parser's document.
RootTag(p) ==
    CASE p = "status" -> "StatusMessage"
      [] p = "discovery" -> "DiscoveryResponse"
      [] p = "collections" -> "CollectionInformationResponse"
      [] p = "subscription" -> "SubscriptionManagementResponse"
      [] OTHER -> ""

\* C33: in every state of every parser, the tag at index i of the tag stack
\* (counted from 0) is a tag whose declared depth allows i; so index 0 holds
\* the root tag, and the stack is never longer than 2 for status, 3 for
\* discovery, 4 for collection information and subscription management.
C33_StackShape ==
    parser \in Parsers =>
      /\ \A i \in DOMAIN tag_stack : (i - 1) \in DeclaredDepths(parser, ElementName(tag_stack[i]))
      /\ tag_stack # << >> => tag_stack[1] = RootTag(parser)
      /\ Len(tag_stack) <= DeepestStack(parser)

\* The discovery parser has a stack of its full height, three tags.
C33_Witness ==
    /\ parser = "discovery"
    /\ outcome.kind = "running"
    /\ Len(tag_stack) = 3
    /\ tag_stack[3] = "ContentBinding"

----------------------------------------------------------------------------
(* C34 *)

\* The content of the most recent text event (Characters or CDATA) of the
\* document so far, the empty string when there was none.
MostRecentText(r) == IF r.text.some THEN r.text.val ELSE ""

\* The step consumes a start-element or an end-element and the call goes on.
ElementStep ==
    /\ outcome.kind = "running" /\ outcome'.kind = "running"
    /\ ntok' = ntok + 1
    /\ tok'.kind \in { "StartElement", "EndElement" }

\* What C34 says of a step.
StaleTextStep ==
    /\ ElementStep => last_value' = last_value
    /\ (/\ Consumes("EndElement") /\ outcome'.kind = "running"
        /\ tok'.name \in TextTags(parser)
        /\ heard = << >>)
         => Committed(Records', tok'.name) = MostRecentText(reader)
    /\ (outcome'.kind = "running" /\ last_value' = "") => ~reader'.text.some

\* C34: no start-element and no end-element changes the text buffer; a
\* text-carrying element that closes with no text event since the last
\* start-element is committed with the content of the most recent text event
\* of the document (the empty string only when there was none); and the
\* buffer is empty only while the document had no text event.
C34_StaleText == [][StaleTextStep]_vars

\* The same, for the parsers that have a CData arm and, in the other two, as
\* long as the most recent text event is a Characters event.
C34_StaleTextNoCData ==
    [][ (parser \in { "discovery", "status" } \/ reader'.text \notin { Some(d) : d \in CDataTexts })
          => StaleTextStep ]_vars

----------------------------------------------------------------------------
(* C35 *)

\* The records with every field at its default.
EmptyCollection ==
    [ collection_name |-> "", collection_type |-> "Unknown", available |-> FALSE,
      description |-> "", collection_volume |-> "", content_bindings |-> << >>,
      collection_services |-> << >> ]

EmptyServiceInstance ==
    [ service_type |-> "Undefined", service_version |-> "", available |-> FALSE,
      protocol_binding |-> "", address |-> "", message_bindings |-> << >>,
      content_bindings |-> << >>, message |-> None ]

EmptyPollInstance ==
    [ protocol_binding |-> "", address |-> "", message_bindings |-> << >> ]

\* The step consumes an event of that kind for that element and the call
\* goes on.
Accepts(kind, name) ==
    Consumes(kind) /\ outcome'.kind = "running" /\ tok'.name = name

\* The record has the default in every field but the ones named by an
\* attribute of the start-element.
DefaultsBut(record, empty, attributes) ==
    \A field \in DOMAIN empty :
        (\A i \in DOMAIN attributes : attributes[i].name # field)
          => record[field] = empty[field]

\* C35: the end-element of a Collection (collections parser) or of a
\* Service_Instance (discovery parser) appends the record built and leaves
\* an empty record in its place; the start-element of a Poll_Instance
\* installs an empty poll instance; so a Collection or Service_Instance that
\* has just been opened has the default in every field its attributes do not
\* name, whatever the records before it held.
C35_NoLeak ==
    [][ /\ (parser = "collections" /\ Accepts("EndElement", "Collection")) =>
              /\ cur_collection' = EmptyCollection
              /\ collection_set' = Append(collection_set, cur_collection)
        /\ (parser = "discovery" /\ Accepts("EndElement", "Service_Instance")) =>
              /\ cur_instance' = EmptyServiceInstance
              /\ services' = Append(services, cur_instance)
        /\ (parser = "subscription" /\ Accepts("StartElement", "Poll_Instance")) =>
              cur_poll_instance' = Some(EmptyPollInstance)
        /\ (parser = "collections" /\ Accepts("StartElement", "Collection")) =>
              DefaultsBut(cur_collection', EmptyCollection, tok'.attributes)
        /\ (parser = "discovery" /\ Accepts("StartElement", "Service_Instance")) =>
              DefaultsBut(cur_instance', EmptyServiceInstance, tok'.attributes)
      ]_vars

\* A second Poll_Instance was opened after a first one with a message
\* binding was closed, and the poll instance being built is empty.
C35_Witness ==
    /\ parser = "subscription"
    /\ outcome.kind = "running"
    /\ tok.kind = "StartElement" /\ tok.name = "Poll_Instance"
    /\ Len(subscription_response.subscription.poll_instances) = 1
    /\ subscription_response.subscription.poll_instances[1].message_bindings # << >>
    /\ cur_poll_instance = Some(EmptyPollInstance)

----------------------------------------------------------------------------
(* C36 *)

\* The arm of the element reads the attributes without an error; only the
\* elements named here look at their attributes.
AttributesAccepted(p, name, attributes) ==
    CASE p = "collections" /\ name = "Collection" ->
            CollCollectionAttrs(EmptyCollection, attributes).ok
      [] p = "collections" /\ name = "Content_Binding" ->
            \A i \in DOMAIN attributes : attributes[i].name = "binding_id"
      [] p = "discovery" /\ name = "Service_Instance" ->
            DiscServiceInstanceAttrs(EmptyServiceInstance, attributes).ok
      [] p = "subscription" /\ name = "Subscription_Management_Response" ->
            SubRootAttrs(SubscriptionResponse_new_empty, attributes).ok
      [] p = "subscription" /\ name = "Subscription" ->
            SubSubscriptionAttrs(SubscriptionResponse_new_empty, attributes).ok
      [] p = "status" /\ name = "Status_Message" ->
            StatRootAttrs(StatusMessage_new_empty, attributes).ok
      [] OTHER -> TRUE

\* C36, as stated: a start-element is accepted if and only if the stack
\* length is a depth declared for its name, so that acceptance is a function
\* of the name and the stack length alone.
C36_NameAndDepthOnly ==
    [][ Consumes("StartElement") =>
          (outcome'.kind = "running"
             <=> Len(tag_stack) \in DeclaredDepths(parser, tok'.name)) ]_vars

\* C36, amended: a start-element is accepted if and only if the stack length
\* is a depth declared for its name and its attributes are ones its arm
\* accepts; the tags on the stack play no part, so a tag is accepted under
\* any parent one level above its declared depth.
C36_NameDepthAttributes ==
    [][ Consumes("StartElement") =>
          (outcome'.kind = "running"
             <=> /\ Len(tag_stack) \in DeclaredDepths(parser, tok'.name)
                 /\ AttributesAccepted(parser, tok'.name, tok'.attributes)) ]_vars

\* The collections parser accepted an Address inside a Description.
C36_Witness ==
    /\ parser = "collections"
    /\ outcome.kind = "running"
    /\ tok.kind = "StartElement" /\ tok.name = "Address"
    /\ tag_stack = << "CollectionInformationResponse", "Collection", "Description",
                      "Address" >>

----------------------------------------------------------------------------
(* C37 *)

\* The value of the element that closes in this step: its last text, or,
\* with no text since the last start-element, the text buffer as it stands.
ClosingValue == IF heard' # << >> THEN OwnText(heard') ELSE last_value

\* What C37 says of a step of the subscription parser.
NoCardinalityStep ==
    LET sub == subscription_response.subscription
        sub2 == subscription_response'.subscription IN
    /\ (/\ Consumes("StartElement")
        /\ tok'.name \in { "Subscription", "Subscription_ID", "Response_Type" }
        /\ Len(tag_stack) \in DeclaredDepths(parser, tok'.name)
        /\ AttributesAccepted(parser, tok'.name, tok'.attributes))
         => outcome'.kind = "running"
    /\ (Accepts("StartElement", "Subscription") /\ HasAttr(tok'.attributes, "status"))
         => sub2.status = StatusOf(AttrValue(tok'.attributes, "status", ""))
    /\ Accepts("EndElement", "Subscription_ID") => sub2.id = ClosingValue
    /\ Accepts("EndElement", "Response_Type")
         => (/\ ClosingValue \in { "FULL", "COUNT_ONLY" }
             /\ sub2.response_type = ResponseTypeOf(ClosingValue))
    /\ Accepts("EndElement", "Poll_Instance")
         => sub2.poll_instances = Append(sub.poll_instances, cur_poll_instance.val)
    /\ (/\ outcome.kind = "running" /\ outcome'.kind = "running"
        /\ ~Accepts("EndElement", "Poll_Instance"))
         => sub2.poll_instances = sub.poll_instances

\* C37: the subscription parser accepts a Subscription, Subscription_ID or
\* Response_Type element at its depth however many came before; each
\* Subscription with a status attribute, each Subscription_ID and each
\* Response_Type overwrites its scalar field with its own value, so the
\* field holds the value of the last such element; and each Poll_Instance
\* end-element appends to the one list, which no other step changes, so the
\* list holds the poll instances of all Subscription elements in document
\* order.
C37_NoCardinality == [][parser = "subscription" => NoCardinalityStep]_vars

\* The same, as long as the last text event of the closing element is a
\* Characters event.
C37_NoCardinalityCharacters ==
    [][ (parser = "subscription"
         /\ (heard' # << >> => heard'[Len(heard')].kind = "Characters"))
          => NoCardinalityStep ]_vars

----------------------------------------------------------------------------
(* C38 *)

\* The value is "true" in some letter case.
IsTrueIgnoringCase(v) == v \in { "true", "True", "TRUE", "tRUE", "trUE", "truE" }

\* The attributes but the available attribute.
RECURSIVE WithoutAvailable(_)
WithoutAvailable(attributes) ==
    IF attributes = << >> THEN << >>
    ELSE IF Head(attributes).name = "available" THEN WithoutAvailable(Tail(attributes))
    ELSE << Head(attributes) >> \o WithoutAvailable(Tail(attributes))

\* The step consumes the start-element of a record with an available
\* attribute, at the depth of the record, in that parser.
AvailableStep(p, name) ==
    /\ parser = p
    /\ Consumes("StartElement")
    /\ tok'.name = name
    /\ Len(tag_stack) = 1
    /\ HasAttr(tok'.attributes, "available")

\* C38: in the collections parser (Collection) and in the discovery parser
\* (Service_Instance) the available attribute never makes the parse fail:
\* the start-element is accepted exactly when it would be without the
\* attribute, and then the record's available is true if the value is "true"
\* in some letter case and false for every other value.
C38_Available ==
    [][ /\ AvailableStep("collections", "Collection") =>
              /\ outcome'.kind = "running"
                   <=> AttributesAccepted(parser, tok'.name,
                                          WithoutAvailable(tok'.attributes))
              /\ outcome'.kind = "running" =>
                   cur_collection'.available
                     = IsTrueIgnoringCase(AttrValue(tok'.attributes, "available", ""))
        /\ AvailableStep("discovery", "Service_Instance") =>
              /\ outcome'.kind = "running"
                   <=> AttributesAccepted(parser, tok'.name,
                                          WithoutAvailable(tok'.attributes))
              /\ outcome'.kind = "running" =>
                   cur_instance'.available
                     = IsTrueIgnoringCase(AttrValue(tok'.attributes, "available", ""))
      ]_vars

\* A Collection with available="yes" was accepted and is not available, after
\* a Collection that is.
C38_Witness ==
    /\ parser = "collections"
    /\ outcome.kind = "running"
    /\ tok = StartElement("Collection", << Attr("available", "yes") >>)
    /\ cur_collection.available = FALSE
    /\ Len(collection_set) = 1
    /\ collection_set[1].available = TRUE

----------------------------------------------------------------------------
(* C39 *)

\* The panic messages of Version::message_id and Version::xml_namespace.
VersionPanics ==
    { "TODO: does V21 use message IDs?", "TODO: version does not support XML" }

\* C39: every call of a compose function (create_subscribe_request_body,
\* create_poll_request_body, create_discovery_request_body,
\* create_collection_information_request_body) with V10 or V11 ends in Ok or
\* Err; with V21 it panics in message_id or xml_namespace, and at no moment
\* of such a call has the writer emitted anything, so the caller gets neither
\* a body nor an error value.
C39_V21Panics ==
    IF args.val.ver = "V21"
    THEN /\ writer = NewWriter
         /\ at \in { "root", "done" }
         /\ at = "done" => /\ composed.kind = "panic"
                           /\ composed.msg \in VersionPanics
                           /\ composed.value = None
    ELSE at = "done" => composed.kind \in { "ok", "err" }

\* A V21 call of create_discovery_request_body has ended in the panic of
\* message_id with nothing written.
C39_Witness ==
    /\ args.val.fn = "create_discovery_request_body"
    /\ args.val.ver = "V21"
    /\ at = "done"
    /\ composed = [kind |-> "panic", msg |-> "TODO: does V21 use message IDs?",
                   value |-> None]
    /\ writer.out = ""

----------------------------------------------------------------------------
(* C40 *)

\* What the copy of version.rs returns for the arguments and the message id
\* of the call under way.
VersionCopy == version_create_subscribe_request_body(args.val, rng)

\* C40: for every version, action, collection name, subscription id,
\* subscription parameters and push parameters, and the same message id, the
\* create_subscribe_request_body of subscriptions.rs and the copy in
\* version.rs return the same outcome: both Ok with the same sequence of
\* emitted events and the same text, or both the same error, or both the same
\* panic.
C40_CopiesEquivalent ==
    ComposeOver =>
      IF composed.kind = "ok"
      THEN /\ VersionCopy.ok
           /\ VersionCopy.val.buf = writer.buf
           /\ Some(VersionCopy.val.out) = composed.value
      ELSE /\ ~VersionCopy.ok
           /\ VersionCopy.panic = (composed.kind = "panic")
           /\ VersionCopy.err = composed.msg

\* A V11 SUBSCRIBE call with subscription parameters that hold two content
\* bindings and a query, and with push parameters, has returned the text that
\* the copy in version.rs returns too.
C40_Witness ==
    /\ ComposeOver /\ composed.kind = "ok"
    /\ args.val.ver = "V11" /\ args.val.action = "Subscribe"
    /\ args.val.subscription_parameters.some
    /\ Len(args.val.subscription_parameters.val.content_bindings) = 2
    /\ args.val.subscription_parameters.val.query.some
    /\ args.val.push_parameters.some
    /\ VersionCopy.ok
    /\ Some(VersionCopy.val.out) = composed.value
    /\ Len(writer.buf) > 20

====
